---------------------------- MODULE Spec2Model ----------------------------
(***************************************************************************)
(* A model of ga4gh/va-spec-python: the controlled vocabularies, the       *)
(* profile field validators, the construction of record kinds and the      *)
(* resolution of polymorphic evidence items.                               *)
(*                                                                         *)
(* The library is a set of pure operations.  Init draws one input (a coded *)
(* concept, a document for a record kind, an evidence item) from a bounded *)
(* set; each action applies one operation of the library to that input and *)
(* records what it returned or raised.                                     *)
(*                                                                         *)
(* An optional value is a sequence of length 0 (None, absent) or 1.        *)
(***************************************************************************)
EXTENDS Naturals, Sequences, FiniteSets

VARIABLES input, pc, op, result, obj, out, threads, registry

vars == <<input, pc, op, result, obj, out, threads, registry>>

None == <<>>

Some(x) == <<x>>

Opt(S) == {None} \cup {Some(x) : x \in S}

\* Python's `x in list`
InList(x, L) == \E i \in DOMAIN L : L[i] = x

Range(L) == {L[i] : i \in DOMAIN L}

(***************************************************************************)
(* base/enums.py                                                           *)
(***************************************************************************)
STRENGTH_OF_EVIDENCE_PROVIDED_VALUES ==
    <<"standalone", "very strong", "strong", "moderate", "supporting">>

STRENGTHS == <<"definitive", "likely">>

System_ACMG == "ACMG Guidelines, 2015"

System_AMP_ASCO_CAP == "AMP/ASCO/CAP (AAC) Guidelines, 2017"

System_CLIN_GEN == "ClinGen Low Penetrance and Risk Allele Recommendations, 2024"

System_CCV == "ClinGen/CGC/VICC Guidelines for Oncogenicity, 2022"

(***************************************************************************)
(* aac_2017/models.py, acmg_2015/models.py, ccv_2022/models.py: the code   *)
(* lists                                                                   *)
(***************************************************************************)
AMP_ASCO_CAP_LEVELS == <<"Level A", "Level B", "Level C", "Level D">>

AMP_ASCO_CAP_TIERS == <<"Tier I", "Tier II", "Tier III", "Tier IV">>

ACMG_EVIDENCE_OUTCOME_VALUES ==
    <<"PS3", "PS3_moderate", "PS3_supporting", "PS3_not_met",
      "BS3", "BS3_moderate", "BS3_supporting", "BS3_not_met">>

ACMG_CLASSIFICATIONS ==
    <<"pathogenic", "likely pathogenic", "benign", "likely benign",
      "uncertain significance">>

CCV_EVIDENCE_OUTCOME_VALUES ==
    <<"OS2", "OS2_moderate", "OS2_supporting", "OS2_not_met",
      "SBS2", "SBS2_moderate", "SBS2_supporting", "SBS2_not_met">>

\* Imported by acmg_2015/models.py and ccv_2022/models.py; its defining
\* enum (ClinGenClassification) is not among the source files.
CLIN_GEN_CLASSIFICATIONS ==
    <<"pathogenic, low penetrance", "likely pathogenic, low penetrance",
      "established risk allele", "likely risk allele",
      "uncertain risk allele">>

(***************************************************************************)
(* Coded concepts (ga4gh.core MappableConcept / Coding), as the validators *)
(* read them: primaryCoding (optional) with system and code, and name.     *)
(***************************************************************************)
\* The system literal the PS3 builder writes (extras/builders/acmg2015.py)
\* is none of the System members.
OtherSystem == "ACMG 2015"

Systems ==
    {System_ACMG, System_AMP_ASCO_CAP, System_CLIN_GEN, System_CCV, OtherSystem}

\* A code that is in no list.
OtherCode == "Tier V"

Codes ==
    Range(STRENGTH_OF_EVIDENCE_PROVIDED_VALUES) \cup Range(STRENGTHS)
    \cup Range(AMP_ASCO_CAP_LEVELS) \cup Range(AMP_ASCO_CAP_TIERS)
    \cup Range(ACMG_EVIDENCE_OUTCOME_VALUES) \cup Range(ACMG_CLASSIFICATIONS)
    \cup Range(CCV_EVIDENCE_OUTCOME_VALUES) \cup Range(CLIN_GEN_CLASSIFICATIONS)
    \cup {OtherCode}

Codings == [system : Systems, code : Codes]

Names == Opt({"a name"})

MappableConcepts == [primaryCoding : Opt(Codings), name : Names]

MC(sys, c) == [primaryCoding |-> Some([system |-> sys, code |-> c]), name |-> None]

(***************************************************************************)
(* What a field validator does: return a value or raise ValueError(msg).   *)
(***************************************************************************)
Return(v) == [ok |-> TRUE, err |-> "", value |-> v]

Raise(msg) == [ok |-> FALSE, err |-> msg, value |-> None]

\* The messages are the source's, without its backquotes.
ErrCodingRequired == "primaryCoding is required."

ListText_LEVELS == "['Level A', 'Level B', 'Level C', 'Level D']"

ListText_TIERS == "['Tier I', 'Tier II', 'Tier III', 'Tier IV']"

ListText_SOEP == "['standalone', 'very strong', 'strong', 'moderate', 'supporting']"

ListText_STRENGTHS == "['definitive', 'likely']"

ListText_CCV_OUTCOMES ==
    "['OS2', 'OS2_moderate', 'OS2_supporting', 'OS2_not_met', 'SBS2', 'SBS2_moderate', 'SBS2_supporting', 'SBS2_not_met']"

ListText_ACMG_CLASSIFICATIONS ==
    "['pathogenic', 'likely pathogenic', 'benign', 'likely benign', 'uncertain significance']"

ListText_CLIN_GEN == "CLIN_GEN_CLASSIFICATIONS"

(***************************************************************************)
(* aac_2017/models.py: _ValidatorMixin                                     *)
(***************************************************************************)
AAC_ErrSystem == "primaryCoding.system must be 'AMP/ASCO/CAP (AAC) Guidelines, 2017'."

AAC_ErrLevel == "primaryCoding.code should be one of " \o ListText_LEVELS \o "."

AAC_ErrTier == "primaryCoding.code should be one of " \o ListText_TIERS \o "."

\* Mutant: the system comparison is dropped.
AAC_validate_strength_anySystem(v) ==
    IF v = None THEN Return(v)
    ELSE IF v[1].primaryCoding = None THEN Raise(ErrCodingRequired)
    ELSE IF ~InList(v[1].primaryCoding[1].code, AMP_ASCO_CAP_LEVELS)
         THEN Raise(AAC_ErrLevel)
    ELSE Return(v)

\* v: MappableConcept | None
AAC_validate_strength(v) ==
    IF v = None THEN Return(v)
    ELSE IF v[1].primaryCoding = None THEN Raise(ErrCodingRequired)
    ELSE IF v[1].primaryCoding[1].system # System_AMP_ASCO_CAP
         THEN Raise(AAC_ErrSystem)
    ELSE IF ~InList(v[1].primaryCoding[1].code, AMP_ASCO_CAP_LEVELS)
         THEN Raise(AAC_ErrLevel)
    ELSE Return(v)

\* Mutant: the code is looked up in the levels, not the tiers.
AAC_validate_classification_levels(v) ==
    IF v.primaryCoding = None THEN Raise(ErrCodingRequired)
    ELSE IF v.primaryCoding[1].system # System_AMP_ASCO_CAP
         THEN Raise(AAC_ErrSystem)
    ELSE IF ~InList(v.primaryCoding[1].code, AMP_ASCO_CAP_LEVELS)
         THEN Raise(AAC_ErrTier)
    ELSE Return(v)

\* v: MappableConcept (the field is required and not optional)
AAC_validate_classification(v) ==
    IF v.primaryCoding = None THEN Raise(ErrCodingRequired)
    ELSE IF v.primaryCoding[1].system # System_AMP_ASCO_CAP
         THEN Raise(AAC_ErrSystem)
    ELSE IF ~InList(v.primaryCoding[1].code, AMP_ASCO_CAP_TIERS)
         THEN Raise(AAC_ErrTier)
    ELSE Return(v)

(***************************************************************************)
(* ccv_2022/models.py: VariantOncogenicityFunctionalImpactEvidenceLine     *)
(***************************************************************************)
CCV_ErrSystem ==
    "primaryCoding.system must be 'ClinGen/CGC/VICC Guidelines for Oncogenicity, 2022'."

CCV_ErrStrengthOfEvidence == "primaryCoding.code must be one of " \o ListText_SOEP \o "."

CCV_ErrOutcome == "primaryCoding.code must be one of " \o ListText_CCV_OUTCOMES \o "."

\* Mutant: a value without primaryCoding is passed through.
CCV_EL_validate_strength_of_evidence_provided_noCoding(v) ==
    IF v = None THEN Return(v)
    ELSE IF v[1].primaryCoding = None THEN Return(v)
    ELSE IF v[1].primaryCoding[1].system # System_CCV THEN Raise(CCV_ErrSystem)
    ELSE IF ~InList(v[1].primaryCoding[1].code, STRENGTH_OF_EVIDENCE_PROVIDED_VALUES)
         THEN Raise(CCV_ErrStrengthOfEvidence)
    ELSE Return(v)

CCV_EL_validate_strength_of_evidence_provided(v) ==
    IF v = None THEN Return(v)
    ELSE IF v[1].primaryCoding = None THEN Raise(ErrCodingRequired)
    ELSE IF v[1].primaryCoding[1].system # System_CCV THEN Raise(CCV_ErrSystem)
    ELSE IF ~InList(v[1].primaryCoding[1].code, STRENGTH_OF_EVIDENCE_PROVIDED_VALUES)
         THEN Raise(CCV_ErrStrengthOfEvidence)
    ELSE Return(v)

\* Mutant: every evidence outcome is returned.
CCV_EL_validate_evidence_outcome_accepts(v) == Return(v)

\* Mutant: the code is checked before the system.
CCV_EL_validate_evidence_outcome_codeFirst(v) ==
    IF v = None THEN Return(v)
    ELSE IF v[1].primaryCoding = None THEN Raise(ErrCodingRequired)
    ELSE IF ~InList(v[1].primaryCoding[1].code, CCV_EVIDENCE_OUTCOME_VALUES)
         THEN Raise(CCV_ErrOutcome)
    ELSE IF v[1].primaryCoding[1].system # System_CCV THEN Raise(CCV_ErrSystem)
    ELSE Return(v)

CCV_EL_validate_evidence_outcome(v) ==
    IF v = None THEN Return(v)
    ELSE IF v[1].primaryCoding = None THEN Raise(ErrCodingRequired)
    ELSE IF v[1].primaryCoding[1].system # System_CCV THEN Raise(CCV_ErrSystem)
    ELSE IF ~InList(v[1].primaryCoding[1].code, CCV_EVIDENCE_OUTCOME_VALUES)
         THEN Raise(CCV_ErrOutcome)
    ELSE Return(v)

(***************************************************************************)
(* ccv_2022/models.py: VariantOncogenicityStudyStatement.  When the system *)
(* differs from System.CLIN_GEN the message is built and not raised: the   *)
(* code goes on to the lookup of the code.                                 *)
(***************************************************************************)
CCV_ErrStrength == "primaryCoding.code must be one of " \o ListText_STRENGTHS \o "."

CCV_ErrClassification == "primaryCoding.code must be one of " \o ListText_CLIN_GEN \o "."

CCV_ErrStrengthSystem ==
    "primaryCoding.system must be: ClinGen Low Penetrance and Risk Allele Recommendations, 2024."

CCV_ErrClassificationSystem ==
    "primaryCoding.system must be one of: ClinGen Low Penetrance and Risk Allele Recommendations, 2024."

\* Mutant: an accepted strength is returned without its primaryCoding.
CCV_validate_strength_dropsCoding(v) ==
    IF v = None THEN Return(v)
    ELSE IF v[1].primaryCoding = None THEN Raise(ErrCodingRequired)
    ELSE IF ~InList(v[1].primaryCoding[1].code, STRENGTHS) THEN Raise(CCV_ErrStrength)
    ELSE Return(Some([v[1] EXCEPT !.primaryCoding = None]))

CCV_validate_strength(v) ==
    IF v = None THEN Return(v)
    ELSE IF v[1].primaryCoding = None THEN Raise(ErrCodingRequired)
    ELSE LET err_msg == IF v[1].primaryCoding[1].system # System_CLIN_GEN
                        THEN CCV_ErrStrengthSystem ELSE ""
         IN  \* err_msg is assigned; no raise follows
             IF ~InList(v[1].primaryCoding[1].code, STRENGTHS)
             THEN Raise(CCV_ErrStrength)
             ELSE Return(v)

CCV_validate_classification(v) ==
    IF v.primaryCoding = None THEN Raise(ErrCodingRequired)
    ELSE LET err_msg == IF v.primaryCoding[1].system # System_CLIN_GEN
                        THEN CCV_ErrClassificationSystem ELSE ""
         IN  \* err_msg is assigned; no raise follows
             IF ~InList(v.primaryCoding[1].code, CLIN_GEN_CLASSIFICATIONS)
             THEN Raise(CCV_ErrClassification)
             ELSE Return(v)

(***************************************************************************)
(* acmg_2015/models.py: VariantPathogenicityStatement.validate_classification *)
(***************************************************************************)
ACMG_supported_systems == <<System_ACMG, System_ACMG>>

ACMG_ErrClassification ==
    "primaryCoding.code must be one of " \o ListText_ACMG_CLASSIFICATIONS \o "."

\* The message for a system outside supported_systems is built and not
\* raised; the branch on the system follows.  Both branches' messages read
\* "must be one of <list>".
ACMG_ErrClassificationSystem ==
    "primaryCoding.system must be one of: ['ACMG Guidelines, 2015', 'ACMG Guidelines, 2015']."

\* Mutant: under the ACMG system the code is not checked.
ACMG_validate_classification_anyCode(v) ==
    IF v.primaryCoding = None THEN Raise(ErrCodingRequired)
    ELSE IF v.primaryCoding[1].system = System_ACMG
         THEN Return(v)
         ELSE IF ~InList(v.primaryCoding[1].code, CLIN_GEN_CLASSIFICATIONS)
              THEN Raise(CCV_ErrClassification)
              ELSE Return(v)

ACMG_validate_classification(v) ==
    IF v.primaryCoding = None THEN Raise(ErrCodingRequired)
    ELSE LET err_msg == IF ~InList(v.primaryCoding[1].system, ACMG_supported_systems)
                        THEN ACMG_ErrClassificationSystem ELSE ""
         IN  \* err_msg is assigned; no raise follows
             IF v.primaryCoding[1].system = System_ACMG
             THEN IF ~InList(v.primaryCoding[1].code, ACMG_CLASSIFICATIONS)
                  THEN Raise(ACMG_ErrClassification)
                  ELSE Return(v)
             ELSE IF ~InList(v.primaryCoding[1].code, CLIN_GEN_CLASSIFICATIONS)
                  THEN Raise(CCV_ErrClassification)
                  ELSE Return(v)

(***************************************************************************)
(* base/validators.py: validate_mappable_concept(mc, system, valid_codes,  *)
(* mc_is_required), called by acmg_2015/models.py.  The file is not among  *)
(* the source files: this is the specification's rule 4.3, steps 1 to 4.   *)
(***************************************************************************)
validate_mappable_concept(mc, system, valid_codes, mc_is_required) ==
    IF mc = None
    THEN IF mc_is_required THEN Raise("MissingRequiredField") ELSE Return(mc)
    ELSE IF mc[1].primaryCoding = None THEN Raise("MissingCodingError")
    ELSE IF mc[1].primaryCoding[1].system # system THEN Raise("SystemMismatchError")
    ELSE IF ~InList(mc[1].primaryCoding[1].code, valid_codes)
         THEN Raise("InvalidCodeError")
    ELSE Return(mc)

\* acmg_2015/models.py: VariantPathogenicityFunctionalImpactEvidenceLine
ACMG_EL_validate_strength_of_evidence_provided(v) ==
    validate_mappable_concept(v, System_ACMG, STRENGTH_OF_EVIDENCE_PROVIDED_VALUES, FALSE)

ACMG_EL_validate_evidence_outcome(v) ==
    validate_mappable_concept(v, System_ACMG, ACMG_EVIDENCE_OUTCOME_VALUES, FALSE)

\* acmg_2015/models.py: VariantPathogenicityStatement
ACMG_validate_strength(v) ==
    validate_mappable_concept(v, System_ACMG, STRENGTHS, FALSE)

(***************************************************************************)
(* Documents.  A document (the keyword arguments of a constructor, a JSON  *)
(* object) maps every field name of the model to an optional value; a      *)
(* field that is None is not supplied.  A value that may be a bare string  *)
(* or a nested document is an item: [iri, doc], exactly one of them set.   *)
(***************************************************************************)
AllFields ==
    {"type", "name", "label", "date",
     "specifiedBy", "reportedIn", "methodType",
     "focus",
     "subject", "predicate", "object",
     "objectCondition", "objectTherapeutic", "conditionQualifier",
     "objectTumorType", "objectSequenceFeature",
     "targetProposition", "hasEvidenceItems", "directionOfEvidenceProvided",
     "strengthOfEvidenceProvided", "evidenceOutcome",
     "proposition", "direction", "strength", "classification",
     "hasEvidenceLines",
     "focusAllele", "focusAlleleCount", "locusAlleleCount",
     "focusAlleleFrequency", "cohort", "subCohortFrequency", "focusVariant"}

EmptyDoc == [f \in AllFields |-> None]

IriItem(s) == [iri |-> Some(s), doc |-> None]

DocItem(d) == [iri |-> None, doc |-> Some(d)]

(***************************************************************************)
(* base/core.py: the record kinds, their discriminator literals and        *)
(* defaults, their declared and required fields.                           *)
(***************************************************************************)
CoreKinds ==
    {"Method", "Contribution", "Document", "Agent", "DataSet", "EvidenceLine",
     "Statement", "StudyGroup"}

PropositionKinds ==
    {"ExperimentalVariantFunctionalImpactProposition",
     "VariantPathogenicityProposition", "VariantDiagnosticProposition",
     "VariantPrognosticProposition", "VariantOncogenicityProposition",
     "VariantTherapeuticResponseProposition"}

AACStatementKinds ==
    {"VariantDiagnosticStudyStatement", "VariantPrognosticStudyStatement",
     "VariantTherapeuticResponseStudyStatement"}

ProfileStatementKinds ==
    AACStatementKinds \cup {"VariantPathogenicityStatement", "VariantOncogenicityStudyStatement"}

ProfileEvidenceLineKinds ==
    {"VariantPathogenicityFunctionalImpactEvidenceLine",
     "VariantOncogenicityFunctionalImpactEvidenceLine"}

EvidenceLineKinds == {"EvidenceLine"} \cup ProfileEvidenceLineKinds

StatementKinds == {"Statement"} \cup ProfileStatementKinds

\* base/caf_study_result.py, base/experimental_variant_functional_impact.py
StudyResultKinds ==
    {"CohortAlleleFrequencyStudyResult", "ExperimentalVariantFunctionalImpactStudyResult"}

\* The kinds that declare a Literal type.
ConcreteKinds ==
    CoreKinds \cup PropositionKinds \cup ProfileStatementKinds \cup ProfileEvidenceLineKinds
    \cup StudyResultKinds

\* StudyResult and Proposition declare no type of their own: they keep
\* Entity's, a required string.
Kinds == ConcreteKinds \cup {"StudyResult", "Proposition"}

\* Mutant: the profile statements leave type as Entity declares it, a string.
TypeLiteral_profileStatementsStr(K) ==
    IF K \in CoreKinds \cup PropositionKinds \cup StudyResultKinds THEN Some(K)
    ELSE IF K \in ProfileEvidenceLineKinds THEN Some("EvidenceLine")
    ELSE None

\* type: Literal[...]
TypeLiteral(K) ==
    IF K \in CoreKinds \cup PropositionKinds \cup StudyResultKinds THEN Some(K)
    ELSE IF K \in ProfileStatementKinds THEN Some("Statement")
    ELSE IF K \in ProfileEvidenceLineKinds THEN Some("EvidenceLine")
    ELSE None

\* Mutant: EvidenceLine's default is Statement's (CoreType.STATEMENT.value).
TypeDefault_swapped(K) ==
    IF K \in CoreKinds \cup PropositionKinds \cup StudyResultKinds
    THEN IF K = "EvidenceLine" THEN Some("Statement") ELSE Some(K)
    ELSE IF K \in ProfileStatementKinds THEN Some("Statement")
    ELSE IF K \in ProfileEvidenceLineKinds THEN Some("Statement")
    ELSE None

\* Field(<default>, ...): CoreType.X.value, or the literal itself
TypeDefault(K) ==
    IF K \in CoreKinds \cup PropositionKinds \cup StudyResultKinds THEN Some(K)
    ELSE IF K \in ProfileStatementKinds THEN Some("Statement")
    ELSE IF K \in ProfileEvidenceLineKinds THEN Some("EvidenceLine")
    ELSE None

\* ga4gh.core Entity, as far as the model reads it
EntityFields == {"type", "name"}

InformationEntityFields == EntityFields \cup {"specifiedBy", "reportedIn"}

EvidenceLineFields ==
    InformationEntityFields \cup
    {"targetProposition", "hasEvidenceItems", "directionOfEvidenceProvided",
     "strengthOfEvidenceProvided", "evidenceOutcome"}

StatementFields ==
    InformationEntityFields \cup
    {"proposition", "direction", "strength", "classification", "hasEvidenceLines"}

\* base/core.py, StudyResult: focus is required
StudyResultFields == InformationEntityFields \cup {"focus"}

\* StudyResultBase, which base/experimental_variant_functional_impact.py
\* imports from base/core.py, is not defined there: the abstract shape of a
\* study result without the generic focus.
StudyResultBaseFields == InformationEntityFields

\* base/caf_study_result.py: CohortAlleleFrequencyStudyResult(StudyResult)
CohortAlleleFrequencyFields ==
    {"focusAllele", "focusAlleleCount", "locusAlleleCount", "focusAlleleFrequency",
     "cohort", "subCohortFrequency"}

Declared(K) ==
    CASE K \in {"Document", "Agent", "StudyGroup"} -> EntityFields
      [] K \in {"Method", "DataSet"} -> EntityFields \cup {"reportedIn"}
      [] K = "Contribution" -> EntityFields \cup {"date"}
      [] K = "StudyResult" -> StudyResultFields
      [] K = "CohortAlleleFrequencyStudyResult" ->
            StudyResultFields \cup CohortAlleleFrequencyFields
      [] K = "ExperimentalVariantFunctionalImpactStudyResult" ->
            StudyResultBaseFields \cup {"focusVariant"}
      [] K = "Proposition" -> EntityFields \cup {"subject", "predicate", "object"}
      [] K \in EvidenceLineKinds -> EvidenceLineFields
      [] K \in StatementKinds -> StatementFields
      [] K = "ExperimentalVariantFunctionalImpactProposition" ->
            EntityFields \cup {"predicate", "objectSequenceFeature"}
      [] K \in {"VariantDiagnosticProposition", "VariantPathogenicityProposition",
                "VariantPrognosticProposition"} ->
            EntityFields \cup {"predicate", "objectCondition"}
      [] K = "VariantOncogenicityProposition" ->
            EntityFields \cup {"predicate", "objectTumorType"}
      [] K = "VariantTherapeuticResponseProposition" ->
            EntityFields \cup {"predicate", "objectTherapeutic", "conditionQualifier"}

\* Fields declared with Field(...), or with no default at all
Required(K) ==
    CASE K \in {"Document", "Agent", "StudyGroup", "Method", "DataSet"} -> {}
      [] K = "Contribution" -> {"date"}
      [] K = "StudyResult" -> {"type", "focus"}
      [] K = "CohortAlleleFrequencyStudyResult" ->
            {"focus", "focusAllele", "focusAlleleCount", "locusAlleleCount",
             "focusAlleleFrequency", "cohort"}
      [] K = "ExperimentalVariantFunctionalImpactStudyResult" -> {"focusVariant"}
      [] K = "Proposition" -> {"type", "subject", "predicate", "object"}
      [] K = "EvidenceLine" -> {"directionOfEvidenceProvided"}
      [] K \in ProfileEvidenceLineKinds -> {"directionOfEvidenceProvided", "specifiedBy"}
      [] K = "Statement" -> {"proposition", "direction"}
      [] K \in AACStatementKinds ->
            {"proposition", "direction", "classification", "specifiedBy"}
      [] K \in {"VariantPathogenicityStatement", "VariantOncogenicityStudyStatement"} ->
            {"direction", "classification", "specifiedBy"}
      [] K = "ExperimentalVariantFunctionalImpactProposition" -> {"objectSequenceFeature"}
      [] K \in {"VariantDiagnosticProposition", "VariantPrognosticProposition"} ->
            {"predicate", "objectCondition"}
      [] K = "VariantPathogenicityProposition" -> {"objectCondition"}
      [] K = "VariantOncogenicityProposition" -> {"objectTumorType"}
      [] K = "VariantTherapeuticResponseProposition" ->
            {"predicate", "objectTherapeutic", "conditionQualifier"}

Direction == {"supports", "neutral", "disputes"}

DiagnosticPredicate ==
    {"isDiagnosticInclusionCriterionFor", "isDiagnosticExclusionCriterionFor"}

PrognosticPredicate == {"associatedWithBetterOutcomeFor", "associatedWithWorseOutcomeFor"}

\* Mutant: the therapeutic-response predicates include isCausalFor.
TherapeuticResponsePredicate_withCausal ==
    {"predictsSensitivityTo", "predictsResistanceTo", "isCausalFor"}

TherapeuticResponsePredicate == {"predictsSensitivityTo", "predictsResistanceTo"}

\* predicate: str = "..." on the three propositions that default it
PredicateDefault(K) ==
    CASE K = "ExperimentalVariantFunctionalImpactProposition" -> Some("impactsFunctionOf")
      [] K \in {"VariantOncogenicityProposition", "VariantPathogenicityProposition"} ->
            Some("isCausalFor")
      [] OTHER -> None

FieldDefault(K, f) ==
    CASE f = "type" -> TypeDefault(K)
      [] f = "predicate" -> PredicateDefault(K)
      [] OTHER -> None

\* proposition: <class> on a Statement kind; targetProposition on an
\* EvidenceLine kind
PropositionKindOf(K) ==
    CASE K = "VariantDiagnosticStudyStatement" -> "VariantDiagnosticProposition"
      [] K = "VariantPrognosticStudyStatement" -> "VariantPrognosticProposition"
      [] K = "VariantTherapeuticResponseStudyStatement" ->
            "VariantTherapeuticResponseProposition"
      [] K \in {"VariantPathogenicityStatement",
                "VariantPathogenicityFunctionalImpactEvidenceLine"} ->
            "VariantPathogenicityProposition"
      [] K \in {"VariantOncogenicityStudyStatement",
                "VariantOncogenicityFunctionalImpactEvidenceLine"} ->
            "VariantOncogenicityProposition"
      [] OTHER -> "Proposition"

(***************************************************************************)
(* The field validators a kind binds to its fields (@field_validator).     *)
(* Each takes the field's value after its type was validated.              *)
(***************************************************************************)
\* A validator's result with the optional value unwrapped
Unwrap(r) == IF r.ok THEN Return(r.value[1]) ELSE r

ErrReportedIn == "reportedIn is required."

\* Mutant: a Method is returned whether or not it has reportedIn.
ACMG_EL_validate_specified_by_anyMethod(v) == Return(v)

\* acmg_2015/models.py: validate_specified_by; v is the resolved
\* Method or iriReference
ACMG_EL_validate_specified_by(v) ==
    IF v.kind = "Method" /\ v.fields["reportedIn"] = None
    THEN Raise(ErrReportedIn)
    ELSE Return(v)

FieldValidator(K, f, v) ==
    CASE K \in AACStatementKinds /\ f = "strength" ->
            Unwrap(AAC_validate_strength(Some(v)))
      [] K \in AACStatementKinds /\ f = "classification" ->
            AAC_validate_classification(v)
      [] K = "VariantOncogenicityFunctionalImpactEvidenceLine"
           /\ f = "strengthOfEvidenceProvided" ->
            Unwrap(CCV_EL_validate_strength_of_evidence_provided(Some(v)))
      [] K = "VariantOncogenicityFunctionalImpactEvidenceLine" /\ f = "evidenceOutcome" ->
            Unwrap(CCV_EL_validate_evidence_outcome(Some(v)))
      [] K = "VariantOncogenicityStudyStatement" /\ f = "strength" ->
            Unwrap(CCV_validate_strength(Some(v)))
      [] K = "VariantOncogenicityStudyStatement" /\ f = "classification" ->
            CCV_validate_classification(v)
      [] K = "VariantPathogenicityFunctionalImpactEvidenceLine"
           /\ f = "strengthOfEvidenceProvided" ->
            Unwrap(ACMG_EL_validate_strength_of_evidence_provided(Some(v)))
      [] K = "VariantPathogenicityFunctionalImpactEvidenceLine" /\ f = "evidenceOutcome" ->
            Unwrap(ACMG_EL_validate_evidence_outcome(Some(v)))
      [] K = "VariantPathogenicityFunctionalImpactEvidenceLine" /\ f = "specifiedBy" ->
            ACMG_EL_validate_specified_by(v)
      [] K = "VariantPathogenicityStatement" /\ f = "strength" ->
            Unwrap(ACMG_validate_strength(Some(v)))
      [] K = "VariantPathogenicityStatement" /\ f = "classification" ->
            ACMG_validate_classification(v)
      [] OTHER -> Return(v)

(***************************************************************************)
(* Construction of a record of kind K from a document (pydantic model      *)
(* validation): an undeclared field is an error, a required field that is  *)
(* not supplied is an error, every supplied field is validated against its *)
(* declared type and then by the kind's validator for it, a field that is  *)
(* not supplied takes its default.  Any error rejects the document.        *)
(***************************************************************************)
RECURSIVE Construct(_, _)
RECURSIVE CheckField(_, _, _)
RECURSIVE ResolveUnion(_, _)
RECURSIVE TryKind(_, _)

\* base/core.py: hasEvidenceItems: list[StudyResult | Statement |
\* EvidenceLine | iriReference]
EvidenceItemKinds == <<"StudyResult", "Statement", "EvidenceLine", "iriReference">>

\* base/core.py: hasEvidenceLines: list[EvidenceLine | iriReference]
EvidenceLineItemKinds == <<"EvidenceLine", "iriReference">>

\* Method | iriReference
SpecifiedByKinds == <<"Method", "iriReference">>

\* Document | iriReference
ReportedInKinds == <<"Document", "iriReference">>

Built(K, root, fields) == [kind |-> K, root |-> root, fields |-> fields]

\* Mutant: the therapeutic-response proposition is not a member.
SubjectVariantPropositionKinds_noTherapeutic ==
    <<"ExperimentalVariantFunctionalImpactProposition",
      "VariantPathogenicityProposition",
      "VariantDiagnosticProposition",
      "VariantPrognosticProposition",
      "VariantOncogenicityProposition">>

\* base/core.py: SubjectVariantProposition.root, the members in their
\* declared order
SubjectVariantPropositionKinds ==
    <<"ExperimentalVariantFunctionalImpactProposition",
      "VariantPathogenicityProposition",
      "VariantDiagnosticProposition",
      "VariantPrognosticProposition",
      "VariantOncogenicityProposition",
      "VariantTherapeuticResponseProposition">>

\* One member of a union against an item: iriReference takes a string, a
\* record kind takes a document.
TryKind(K, item) ==
    IF K = "iriReference"
    THEN IF item.iri # None
         THEN [ok |-> TRUE, errs |-> {},
               rec |-> Some(Built("iriReference", item.iri, EmptyDoc))]
         ELSE [ok |-> FALSE, errs |-> {<<"iriReference", "string_type">>}, rec |-> None]
    ELSE IF item.doc # None
         THEN Construct(K, item.doc[1])
         ELSE [ok |-> FALSE, errs |-> {<<K, "model_type">>}, rec |-> None]

\* The members are tried in their declared order; the value is the first
\* member's that validates.
ResolveUnion(kinds, item) ==
    LET hits == {i \in DOMAIN kinds : TryKind(kinds[i], item).ok}
    IN  IF hits = {}
        THEN Raise("no member of the union validates")
        ELSE LET first == CHOOSE i \in hits : \A j \in hits : i <= j
             IN  Return(TryKind(kinds[first], item).rec[1])

CheckField(K, f, v) ==
    CASE f = "type" ->
            IF TypeLiteral(K) = None \/ TypeLiteral(K) = Some(v)
            THEN Return(v)
            ELSE Raise("literal_error")
      [] f \in {"direction", "directionOfEvidenceProvided"} ->
            IF v \in Direction THEN Return(v) ELSE Raise("enum")
      [] f = "predicate" ->
            IF \/ K = "VariantDiagnosticProposition" /\ v \notin DiagnosticPredicate
               \/ K = "VariantPrognosticProposition" /\ v \notin PrognosticPredicate
               \/ K = "VariantTherapeuticResponseProposition"
                    /\ v \notin TherapeuticResponsePredicate
            THEN Raise("enum")
            ELSE Return(v)
      [] f \in {"strength", "classification", "strengthOfEvidenceProvided",
                "evidenceOutcome"} ->
            FieldValidator(K, f, v)
      [] f = "specifiedBy" ->
            LET r == ResolveUnion(SpecifiedByKinds, v)
            IN  IF r.ok THEN FieldValidator(K, f, r.value) ELSE r
      [] f = "reportedIn" ->
            IF K \in {"Method", "DataSet"}
            THEN ResolveUnion(ReportedInKinds, v)
            ELSE ResolveUnion(<<"iriReference">>, v)
      [] f \in {"proposition", "targetProposition"} ->
            LET r == Construct(PropositionKindOf(K), v)
            IN  IF r.ok THEN Return(r.rec[1]) ELSE Raise("invalid proposition")
      [] f = "hasEvidenceItems" ->
            LET r == [i \in DOMAIN v |-> ResolveUnion(EvidenceItemKinds, v[i])]
            IN  IF \A i \in DOMAIN v : r[i].ok
                THEN Return([i \in DOMAIN v |-> r[i].value])
                ELSE Raise("invalid evidence item")
      [] f = "hasEvidenceLines" ->
            LET r == [i \in DOMAIN v |-> ResolveUnion(EvidenceLineItemKinds, v[i])]
            IN  IF \A i \in DOMAIN v : r[i].ok
                THEN Return([i \in DOMAIN v |-> r[i].value])
                ELSE Raise("invalid evidence line")
      [] f \in {"focusAllele", "focusVariant"} ->
            ResolveUnion(<<"iriReference">>, v)
      [] f = "cohort" ->
            LET r == Construct("StudyGroup", v)
            IN  IF r.ok THEN Return(r.rec[1]) ELSE Raise("invalid cohort")
      [] f = "subCohortFrequency" ->
            LET r == [i \in DOMAIN v |->
                        Construct("CohortAlleleFrequencyStudyResult", v[i])]
            IN  IF \A i \in DOMAIN v : r[i].ok
                THEN Return([i \in DOMAIN v |-> r[i].rec[1]])
                ELSE Raise("invalid sub-cohort")
      [] OTHER -> Return(v)

Construct(K, d) ==
    LET extra   == {f \in AllFields \ Declared(K) : d[f] # None}
        missing == {f \in Required(K) : d[f] = None}
        present == {f \in Declared(K) : d[f] # None}
        chk     == [f \in present |-> CheckField(K, f, d[f][1])]
        errs    == {<<f, "extra_forbidden">> : f \in extra}
                   \cup {<<f, "missing">> : f \in missing}
                   \cup {<<f, chk[f].err>> : f \in {g \in present : ~chk[g].ok}}
    IN  IF errs = {}
        THEN [ok |-> TRUE, errs |-> {},
              rec |-> Some(Built(K, None,
                        [f \in AllFields |->
                            IF f \in present THEN Some(chk[f].value)
                            ELSE IF f \in Declared(K) THEN FieldDefault(K, f)
                            ELSE None]))]
        ELSE [ok |-> FALSE, errs |-> errs, rec |-> None]

\* SubjectVariantProposition(**doc): a RootModel, the record it gives holds
\* the resolved proposition as its root
SubjectVariantProposition(d) ==
    LET r == ResolveUnion(SubjectVariantPropositionKinds, DocItem(d))
    IN  IF r.ok
        THEN Return(Built("SubjectVariantProposition", Some(r.value), EmptyDoc))
        ELSE r

(***************************************************************************)
(* extras/builders/acmg2015.py: the PS3 builder.  Of the document's fields *)
(* only the name is kept: pmid, doi and urls are declared by Document and  *)
(* the literals satisfy their patterns.                                    *)
(***************************************************************************)
\* VariantPathogenicityEvidenceLine.Criterion.PS3.value; the class is not
\* among the source files
Criterion_PS3 == "PS3"

ACMG_2015_SPEC_DOCUMENT == [EmptyDoc EXCEPT !["name"] = Some("ACMG 2015 Guidelines")]

\* Method(name=..., methodType=code, reportedIn=ACMG_2015_SPEC_DOCUMENT)
acmg2015_ps3_method ==
    [EmptyDoc EXCEPT !["name"] = Some("ACMG 2015 " \o Criterion_PS3 \o " Criterion"),
                     !["methodType"] = Some(Criterion_PS3),
                     !["reportedIn"] = Some(DocItem(ACMG_2015_SPEC_DOCUMENT))]

\* strength is the value of a StrengthOfEvidenceProvided member
PS3(criteria_met, strength) ==
    LET code   == Criterion_PS3
        method == Construct("Method", acmg2015_ps3_method)
        strength_mc == IF ~criteria_met THEN None
                       ELSE Some(MC("ACMG 2015", strength))
        direction == IF ~criteria_met THEN "neutral" ELSE "supports"
        derived_code == IF ~criteria_met THEN code \o "_not_met"
                        ELSE IF strength = "strong" THEN code
                        ELSE code \o "_" \o strength
        el == Construct("EvidenceLine",
                [EmptyDoc EXCEPT
                    !["strengthOfEvidenceProvided"] = strength_mc,
                    !["directionOfEvidenceProvided"] = Some(direction),
                    !["specifiedBy"] = Some(DocItem(acmg2015_ps3_method)),
                    !["evidenceOutcome"] = Some(MC("ACMG 2015", derived_code))])
    IN  IF ~method.ok THEN Raise("ValidationError: Method")
        ELSE IF ~el.ok THEN Raise("ValidationError: EvidenceLine")
        ELSE Return(el.rec[1])

(***************************************************************************)
(* Operations on a constructed record (pydantic BaseModel): reading and    *)
(* assigning an attribute, and model_dump(exclude_none=True).              *)
(***************************************************************************)
\* A field supplied with the value None (Contribution.date is required and
\* may be None)
NullValue == "null"

\* record.f: a declared field reads as its value, another name is an
\* AttributeError
GetAttr(rec, f) ==
    IF f \in Declared(rec.kind)
    THEN Return(rec.fields[f])
    ELSE Raise("AttributeError: object has no attribute")

\* Mutant: any name is set on the record.
SetAttr_anyName(rec, f, v) ==
    [ok |-> TRUE, err |-> "", rec |-> [rec EXCEPT !.fields[f] = Some(v)]]

\* record.f = v: a declared field is set; another name is a ValueError and
\* the record stays as it is
SetAttr(rec, f, v) ==
    IF f \in Declared(rec.kind)
    THEN [ok |-> TRUE, err |-> "", rec |-> [rec EXCEPT !.fields[f] = Some(v)]]
    ELSE [ok |-> FALSE, err |-> "ValueError: object has no field", rec |-> rec]

RECURSIVE model_dump(_)

\* An iriReference dumps as its string, a record as its document
DumpItem(r) ==
    IF r.kind = "iriReference" THEN IriItem(r.root[1]) ELSE DocItem(model_dump(r))

DumpField(f, v) ==
    CASE f \in {"specifiedBy", "reportedIn", "focusAllele", "focusVariant"} -> DumpItem(v)
      [] f \in {"proposition", "targetProposition", "cohort"} -> model_dump(v)
      [] f \in {"hasEvidenceItems", "hasEvidenceLines"} ->
            [i \in DOMAIN v |-> DumpItem(v[i])]
      [] f = "subCohortFrequency" -> [i \in DOMAIN v |-> model_dump(v[i])]
      [] OTHER -> v

\* model_dump(exclude_none=True): the fields whose value is not None
model_dump(rec) ==
    [f \in AllFields |->
        IF rec.fields[f] = None \/ (f = "date" /\ rec.fields[f] = Some(NullValue))
        THEN None
        ELSE Some(DumpField(f, rec.fields[f][1]))]

(***************************************************************************)
(* The inputs.  BaseDoc(K) supplies the required fields of kind K and      *)
(* nothing else; the input sets vary the fields the operations read.       *)
(***************************************************************************)
With(d, f, v) == [d EXCEPT ![f] = Some(v)]

Ref == "evidence_items.json#/1"

BaseProposition ==
    With(With(With(With(EmptyDoc, "type", "Proposition"), "subject", "{}"),
              "predicate", "predicate"), "object", "{}")

\* A MappableConcept the kind's validator for the field accepts
ValidCoded(K, f) ==
    CASE K \in AACStatementKinds /\ f = "strength" -> MC(System_AMP_ASCO_CAP, "Level A")
      [] K \in AACStatementKinds /\ f = "classification" -> MC(System_AMP_ASCO_CAP, "Tier I")
      [] K = "VariantOncogenicityStudyStatement" /\ f = "strength" ->
            MC(System_CLIN_GEN, "definitive")
      [] K = "VariantOncogenicityStudyStatement" /\ f = "classification" ->
            MC(System_CLIN_GEN, "likely risk allele")
      [] K = "VariantPathogenicityStatement" /\ f = "strength" -> MC(System_ACMG, "likely")
      [] K = "VariantPathogenicityStatement" /\ f = "classification" ->
            MC(System_ACMG, "pathogenic")
      [] K = "VariantOncogenicityFunctionalImpactEvidenceLine"
           /\ f = "strengthOfEvidenceProvided" -> MC(System_CCV, "strong")
      [] K = "VariantOncogenicityFunctionalImpactEvidenceLine" /\ f = "evidenceOutcome" ->
            MC(System_CCV, "OS2_supporting")
      [] K = "VariantPathogenicityFunctionalImpactEvidenceLine"
           /\ f = "strengthOfEvidenceProvided" -> MC(System_ACMG, "strong")
      [] K = "VariantPathogenicityFunctionalImpactEvidenceLine" /\ f = "evidenceOutcome" ->
            MC(System_ACMG, "PS3_supporting")
      [] OTHER -> MC(OtherSystem, OtherCode)

BasePropositionOf(K) ==
    CASE K = "Proposition" -> BaseProposition
      [] K = "ExperimentalVariantFunctionalImpactProposition" ->
            With(EmptyDoc, "objectSequenceFeature", Ref)
      [] K = "VariantDiagnosticProposition" ->
            With(With(EmptyDoc, "predicate", "isDiagnosticInclusionCriterionFor"),
                 "objectCondition", Ref)
      [] K = "VariantPrognosticProposition" ->
            With(With(EmptyDoc, "predicate", "associatedWithBetterOutcomeFor"),
                 "objectCondition", Ref)
      [] K = "VariantPathogenicityProposition" -> With(EmptyDoc, "objectCondition", Ref)
      [] K = "VariantOncogenicityProposition" -> With(EmptyDoc, "objectTumorType", Ref)
      [] K = "VariantTherapeuticResponseProposition" ->
            With(With(With(EmptyDoc, "predicate", "predictsSensitivityTo"),
                      "objectTherapeutic", Ref), "conditionQualifier", Ref)

\* tests/validation/test_va_spec_models.py, the caf fixture: the keyword
\* arguments of CohortAlleleFrequencyStudyResult(...); the cohort is
\* StudyGroup(id="ALL", name="Overall")
caf ==
    [EmptyDoc EXCEPT !["focusAllele"] = Some(IriItem("allele.json#/1")),
                     !["focusAlleleCount"] = Some(0),
                     !["focusAlleleFrequency"] = Some(0),
                     !["locusAlleleCount"] = Some(34086),
                     !["cohort"] = Some(With(EmptyDoc, "name", "Overall"))]

BaseDoc(K) ==
    CASE K \in {"Document", "Agent", "StudyGroup", "Method", "DataSet"} -> EmptyDoc
      [] K = "Contribution" -> With(EmptyDoc, "date", NullValue)
      [] K = "StudyResult" -> With(With(EmptyDoc, "type", "StudyResult"), "focus", Ref)
      [] K = "CohortAlleleFrequencyStudyResult" -> With(caf, "focus", Ref)
      [] K = "ExperimentalVariantFunctionalImpactStudyResult" ->
            With(EmptyDoc, "focusVariant", IriItem("allele.json#/1"))
      [] K \in PropositionKinds \cup {"Proposition"} -> BasePropositionOf(K)
      [] K = "EvidenceLine" -> With(EmptyDoc, "directionOfEvidenceProvided", "supports")
      [] K \in ProfileEvidenceLineKinds ->
            With(With(EmptyDoc, "directionOfEvidenceProvided", "supports"),
                 "specifiedBy", IriItem(Ref))
      [] K = "Statement" ->
            With(With(EmptyDoc, "proposition", BaseProposition), "direction", "supports")
      [] K \in ProfileStatementKinds ->
            With(With(With(With(EmptyDoc,
                "proposition", BasePropositionOf(PropositionKindOf(K))),
                "direction", "supports"),
                "classification", ValidCoded(K, "classification")),
                "specifiedBy", IriItem(Ref))

DocInput(K, d) == [tag |-> "doc", kind |-> K, v |-> None, doc |-> d]

McInput(v) == [tag |-> "mc", kind |-> "", v |-> v, doc |-> EmptyDoc]

\* type: not supplied, a kind's literal, or a string that is no literal
TypeStrings == CoreKinds \cup PropositionKinds \cup {"NoSuchType"}

\* Coded concepts without a name
CodedValues == {m \in MappableConcepts : m.name = None}

\* directionOfEvidenceProvided: a Direction, or the description's 'none'
DirectionStrings == Direction \cup {"none"}

\* A coded concept for a field validator
McInputs == \E v \in Opt(MappableConcepts) : input = McInput(v)

\* A document of each kind, its type varied, with and without a name, with
\* and without a label
TypeInputs ==
    \E K \in Kinds, t \in Opt(TypeStrings), n \in Opt({"Joe"}), l \in Opt({"Jane"}) :
        input = DocInput(K, [BaseDoc(K) EXCEPT !["type"] = t, !["name"] = n,
                                               !["label"] = l])

\* Evidence line documents: direction and strength varied, and the
\* evidence outcome varied under each direction
EvidenceLineInputs ==
    \E K \in EvidenceLineKinds :
        \/ \E dir \in Opt(DirectionStrings), s \in Opt(CodedValues) :
              input = DocInput(K,
                        [BaseDoc(K) EXCEPT !["directionOfEvidenceProvided"] = dir,
                                           !["strengthOfEvidenceProvided"] = s])
        \/ \E dir \in Direction,
              s \in {None, Some(ValidCoded(K, "strengthOfEvidenceProvided"))},
              o \in Opt(MappableConcepts) :
              input = DocInput(K,
                        [BaseDoc(K) EXCEPT !["directionOfEvidenceProvided"] = Some(dir),
                                           !["strengthOfEvidenceProvided"] = s,
                                           !["evidenceOutcome"] = o])

\* Statement documents: strength varied against three classifications,
\* classification varied against two strengths
StatementInputs ==
    \E K \in StatementKinds :
        \/ \E s \in Opt(CodedValues),
              c \in {None, Some(ValidCoded(K, "classification")),
                     Some(MC(OtherSystem, "likely risk allele"))} :
              input = DocInput(K, [BaseDoc(K) EXCEPT !["strength"] = s,
                                                     !["classification"] = c])
        \/ \E s \in {None, Some(ValidCoded(K, "strength"))},
              c \in Opt(MappableConcepts) :
              input = DocInput(K, [BaseDoc(K) EXCEPT !["strength"] = s,
                                                     !["classification"] = c])

\* tests/validation/test_va_spec_models.py, test_evidence_line: the first
\* evidence item, a Statement document with a therapeutic-response
\* proposition, AAC strength Level A, AAC classification Tier I and a
\* Method in specifiedBy
TherapeuticResponseItem ==
    [BaseDoc("VariantTherapeuticResponseStudyStatement") EXCEPT
        !["type"] = Some("Statement"),
        !["strength"] = Some(MC(System_AMP_ASCO_CAP, "Level A")),
        !["specifiedBy"] = Some(DocItem(With(EmptyDoc, "type", "Method")))]

\* The longest hasEvidenceItems list drawn
MaxItems == 2

ItemTypes == {"Statement", "EvidenceLine", "StudyResult"}

\* The documents an evidence item may be: each type, or none, on the
\* fields of a Statement, of an EvidenceLine, of a StudyResult, or on none
ItemDocs ==
    {[d EXCEPT !["type"] = t] :
        d \in {EmptyDoc,
                [BaseDoc("Statement") EXCEPT !["type"] = None],
                [BaseDoc("EvidenceLine") EXCEPT !["type"] = None],
                [BaseDoc("StudyResult") EXCEPT !["type"] = None],
                [TherapeuticResponseItem EXCEPT !["type"] = None]},
        t \in Opt(ItemTypes)}

\* tests/validation/test_va_spec_models.py, test_evidence_line: the second
\* evidence item, caf.model_dump(exclude_none=True), as the fixture gives it
\* and with the focus that StudyResult requires
CafItems ==
    LET dump == [caf EXCEPT
                    !["type"] = Some("CohortAlleleFrequencyStudyResult"),
                    !["cohort"] = Some(With(With(EmptyDoc, "name", "Overall"),
                                            "type", "StudyGroup"))]
    IN  {dump, With(dump, "focus", Ref)}

Items ==
    {IriItem(Ref), IriItem("statements.json#/2")}
    \cup {DocItem(d) : d \in ItemDocs \cup CafItems}

ItemLists == UNION {[1..n -> Items] : n \in 0..MaxItems}

\* An EvidenceLine document with a list of evidence items
EvidenceItemInputs ==
    \E items \in ItemLists :
        input = DocInput("EvidenceLine",
                    With(BaseDoc("EvidenceLine"), "hasEvidenceItems", items))

\* Study result documents: the generic focus and the narrowed field each
\* supplied or not, the type varied
StudyResultInputs ==
    \E K \in StudyResultKinds, fo \in Opt({Ref}), narrowed \in BOOLEAN,
       t \in Opt(StudyResultKinds \cup {"StudyResult"}) :
        LET f == IF K = "CohortAlleleFrequencyStudyResult"
                 THEN "focusAllele" ELSE "focusVariant"
        IN  input = DocInput(K,
                      [BaseDoc(K) EXCEPT
                          !["focus"] = fo,
                          !["type"] = t,
                          ![f] = IF narrowed THEN Some(IriItem("allele.json#/1"))
                                 ELSE None])

\* Contribution documents: date not supplied, supplied as None, supplied as
\* a date
ContributionInputs ==
    \E dt \in Opt({NullValue, "2024-01-01"}), t \in Opt({"Contribution"}) :
        input = DocInput("Contribution",
                    [EmptyDoc EXCEPT !["date"] = dt, !["type"] = t])

\* Propositions for a Statement or an EvidenceLine: valid, without a
\* subject, with an undeclared field
NestedPropositions ==
    {BaseProposition, [BaseProposition EXCEPT !["subject"] = None],
     With(BaseProposition, "label", "Jane")}

\* Evidence lines for a Statement: a reference, a valid document, a document
\* without a direction, a document with a direction that is none
NestedEvidenceLines ==
    {IriItem(Ref), DocItem(BaseDoc("EvidenceLine")), DocItem(EmptyDoc),
     DocItem(With(EmptyDoc, "directionOfEvidenceProvided", "none"))}

\* Sub-cohorts for a CohortAlleleFrequencyStudyResult: valid, without a
\* focusAllele, with a cohort that has an undeclared field
NestedSubCohorts ==
    {BaseDoc("CohortAlleleFrequencyStudyResult"),
     [BaseDoc("CohortAlleleFrequencyStudyResult") EXCEPT !["focusAllele"] = None],
     With(BaseDoc("CohortAlleleFrequencyStudyResult"), "cohort",
          With(EmptyDoc, "label", "Jane"))}

\* Records with nested records: a Statement with a proposition and evidence
\* lines, an EvidenceLine with a target proposition, a
\* CohortAlleleFrequencyStudyResult with sub-cohorts
NestedInputs ==
    \/ \E K \in StatementKinds, p \in NestedPropositions,
          n \in 0..MaxItems : \E els \in [1..n -> NestedEvidenceLines] :
          input = DocInput(K, [BaseDoc(K) EXCEPT
                                  !["proposition"] =
                                      IF K = "Statement" THEN Some(p) ELSE @,
                                  !["hasEvidenceLines"] = Some(els)])
    \/ \E K \in EvidenceLineKinds, p \in NestedPropositions :
          input = DocInput(K, With(BaseDoc(K), "targetProposition",
                        IF K = "EvidenceLine" THEN p
                        ELSE [BasePropositionOf(PropositionKindOf(K)) EXCEPT
                                 !["label"] = p["label"],
                                 ![IF K = "VariantPathogenicityFunctionalImpactEvidenceLine"
                                   THEN "objectCondition" ELSE "objectTumorType"] =
                                     IF p["subject"] = None THEN None ELSE @]))
    \/ \E n \in 0..MaxItems : \E subs \in [1..n -> NestedSubCohorts] :
          input = DocInput("CohortAlleleFrequencyStudyResult",
                    With(BaseDoc("CohortAlleleFrequencyStudyResult"),
                         "subCohortFrequency", subs))

\* The predicates drawn: each enumeration's, the defaults of the other
\* propositions, and a string that is none of them
PredicateStrings ==
    DiagnosticPredicate \cup PrognosticPredicate \cup TherapeuticResponsePredicate
    \cup {"isCausalFor", "impactsFunctionOf", "relatedTo"}

\* Proposition documents: the predicate not supplied, or any of the strings
PropositionInputs ==
    \E K \in PropositionKinds, pr \in Opt(PredicateStrings) :
        input = DocInput(K, [BasePropositionOf(K) EXCEPT !["predicate"] = pr])

\* Profile statement documents whose proposition is the document of each
\* proposition kind, with and without its type
StatementPropositionInputs ==
    \E S \in ProfileStatementKinds, P \in PropositionKinds, typed \in BOOLEAN :
        input = DocInput(S, With(BaseDoc(S), "proposition",
                    [BasePropositionOf(P) EXCEPT
                        !["type"] = IF typed THEN Some(P) ELSE None]))

\* tests/validation/test_va_spec_models.py, test_variant_pathogenicity_el:
\* what specifiedBy is given as: a reference, a Method document without
\* reportedIn, a Method document whose reportedIn is a reference or a
\* Document
SpecifiedByItems ==
    {IriItem(Ref)}
    \cup {DocItem([EmptyDoc EXCEPT !["type"] = t, !["name"] = Some("ACMG 2015 PS3 Criterion"),
                                   !["reportedIn"] = r]) :
            t \in Opt({"Method"}),
            r \in {None, Some(IriItem(Ref)),
                   Some(DocItem(With(With(EmptyDoc, "type", "Document"),
                                     "name", "ACMG Guidelines, 2015")))}}

\* Evidence line documents: specifiedBy not supplied, or each of the items
SpecifiedByInputs ==
    \E K \in EvidenceLineKinds, sb \in Opt(SpecifiedByItems), t \in Opt({"EvidenceLine"}) :
        input = DocInput(K, [BaseDoc(K) EXCEPT !["specifiedBy"] = sb, !["type"] = t])

\* The arguments of PS3: criteria_met and a StrengthOfEvidenceProvided value
PS3Inputs ==
    \E cm \in BOOLEAN, s \in Range(STRENGTH_OF_EVIDENCE_PROVIDED_VALUES) :
        input = [tag |-> "ps3", kind |-> "", v |-> None, doc |-> EmptyDoc,
                 criteria_met |-> cm, strength |-> s]

\* Documents for SubjectVariantProposition: each proposition kind's, with
\* and without its type, the predicate varied; a document with no field; a
\* document with a name only
SubjectVariantInputs ==
    \/ \E P \in PropositionKinds, typed \in BOOLEAN, pr \in Opt(PredicateStrings) :
          input = DocInput("SubjectVariantProposition",
                    [BasePropositionOf(P) EXCEPT
                        !["type"] = IF typed THEN Some(P) ELSE None,
                        !["predicate"] = pr])
    \/ \E n \in Opt({"Joe"}) :
          input = DocInput("SubjectVariantProposition", [EmptyDoc EXCEPT !["name"] = n])

\* The module-level lists of permitted codes, as the modules define them
Registry ==
    [AMP_ASCO_CAP_LEVELS |-> AMP_ASCO_CAP_LEVELS,
     AMP_ASCO_CAP_TIERS |-> AMP_ASCO_CAP_TIERS,
     ACMG_EVIDENCE_OUTCOME_VALUES |-> ACMG_EVIDENCE_OUTCOME_VALUES,
     CCV_EVIDENCE_OUTCOME_VALUES |-> CCV_EVIDENCE_OUTCOME_VALUES,
     ACMG_CLASSIFICATIONS |-> ACMG_CLASSIFICATIONS,
     CLIN_GEN_CLASSIFICATIONS |-> CLIN_GEN_CLASSIFICATIONS,
     STRENGTHS |-> STRENGTHS,
     STRENGTH_OF_EVIDENCE_PROVIDED_VALUES |-> STRENGTH_OF_EVIDENCE_PROVIDED_VALUES]

(***************************************************************************)
(* The state machine: an input is drawn, one operation is applied to it.   *)
(***************************************************************************)
Init ==
    /\ \/ McInputs
       \/ TypeInputs
       \/ EvidenceLineInputs
       \/ StatementInputs
       \/ EvidenceItemInputs
       \/ StudyResultInputs
       \/ ContributionInputs
       \/ NestedInputs
       \/ PropositionInputs
       \/ StatementPropositionInputs
       \/ SubjectVariantInputs
       \/ SpecifiedByInputs
       \/ PS3Inputs
    /\ pc = "init"
    /\ op = ""
    /\ result = None
    /\ obj = None
    /\ out = None
    /\ threads = <<>>
    /\ registry = Registry

\* Mutant: the call empties the document it was given.
Apply_clearsInput(name, r) ==
    /\ pc = "init"
    /\ pc' = "done"
    /\ op' = name
    /\ result' = r
    /\ obj' = IF name = "construct" /\ r.ok THEN r.rec ELSE None
    /\ input' = [input EXCEPT !.doc = EmptyDoc]
    /\ UNCHANGED <<out, threads, registry>>

\* One call on the input; a constructor's record is the object the later
\* operations act on
Apply(name, r) ==
    /\ pc = "init"
    /\ pc' = "done"
    /\ op' = name
    /\ result' = r
    /\ obj' = IF name = "construct" /\ r.ok THEN r.rec ELSE None
    /\ UNCHANGED <<input, out, threads, registry>>

\* One operation on the constructed record
Use(name, f, r, o) ==
    /\ pc = "done"
    /\ op = "construct"
    /\ obj # None
    /\ pc' = "used"
    /\ out' = Some([name |-> name, field |-> f, res |-> r])
    /\ obj' = o
    /\ UNCHANGED <<input, op, result, threads, registry>>

\* cls.validate_strength(v), cls one of the three statements that mix
\* _ValidatorMixin in
AACValidateStrength ==
    /\ input.tag = "mc"
    /\ \E cls \in AACStatementKinds :
          Apply(cls \o ".validate_strength", AAC_validate_strength(input.v))

\* cls.validate_classification(v); the field is not optional
AACValidateClassification ==
    /\ input.tag = "mc" /\ input.v # None
    /\ \E cls \in AACStatementKinds :
          Apply(cls \o ".validate_classification",
                AAC_validate_classification(input.v[1]))

CCVEvidenceLineValidateStrength ==
    /\ input.tag = "mc"
    /\ Apply("CCV.EL.validate_strength_of_evidence_provided",
             CCV_EL_validate_strength_of_evidence_provided(input.v))

CCVEvidenceLineValidateOutcome ==
    /\ input.tag = "mc"
    /\ Apply("CCV.EL.validate_evidence_outcome", CCV_EL_validate_evidence_outcome(input.v))

CCVValidateStrength ==
    /\ input.tag = "mc"
    /\ Apply("CCV.validate_strength", CCV_validate_strength(input.v))

CCVValidateClassification ==
    /\ input.tag = "mc" /\ input.v # None
    /\ Apply("CCV.validate_classification", CCV_validate_classification(input.v[1]))

ACMGValidateClassification ==
    /\ input.tag = "mc" /\ input.v # None
    /\ Apply("ACMG.validate_classification", ACMG_validate_classification(input.v[1]))

\* <Kind>(**doc)
ConstructRecord ==
    /\ input.tag = "doc"
    /\ input.kind \in Kinds
    /\ Apply("construct", Construct(input.kind, input.doc))

\* SubjectVariantProposition(**doc)
ConstructSubjectVariantProposition ==
    /\ input.tag = "doc"
    /\ input.kind = "SubjectVariantProposition"
    /\ Apply("SubjectVariantProposition", SubjectVariantProposition(input.doc))

\* PS3(criteria_met, strength)
BuildPS3 ==
    /\ input.tag = "ps3"
    /\ Apply("PS3", PS3(input.criteria_met, input.strength))

\* The attribute names read and assigned: two no kind declares as such
\* (label) or every study result kind is said to drop (focus), and two
\* every kind declares
AttrNames == {"label", "focus", "name", "type"}

\* record.f
ReadAttribute ==
    /\ obj # None
    /\ \E f \in AttrNames : Use("getattr", f, GetAttr(obj[1], f), obj)

\* record.f = "..."
AssignAttribute ==
    /\ obj # None
    /\ \E f \in AttrNames :
          LET r == SetAttr(obj[1], f, "This is an agent")
          IN  Use("setattr", f, [ok |-> r.ok, err |-> r.err, value |-> None],
                  Some(r.rec))

\* record.model_dump(exclude_none=True)
Serialize ==
    /\ obj # None
    /\ Use("model_dump", "", Return(model_dump(obj[1])), obj)

\* <Kind>(**record.model_dump(exclude_none=True))
RoundTrip ==
    /\ obj # None
    /\ Use("round_trip", "", Construct(obj[1].kind, model_dump(obj[1])), obj)

\* <Kind>(**doc) a second time
ConstructAgain ==
    /\ pc = "done"
    /\ op = "construct"
    /\ pc' = "used"
    /\ out' = Some([name |-> "construct", field |-> "",
                    res |-> Construct(input.kind, input.doc)])
    /\ UNCHANGED <<input, op, result, obj, threads, registry>>

\* The validator an operation name stands for, applied to a value that
\* validator returned
ValidatorOf(name, v) ==
    CASE name \in {cls \o ".validate_strength" : cls \in AACStatementKinds} ->
            AAC_validate_strength(v)
      [] name \in {cls \o ".validate_classification" : cls \in AACStatementKinds} ->
            AAC_validate_classification(v)
      [] name = "CCV.EL.validate_strength_of_evidence_provided" ->
            CCV_EL_validate_strength_of_evidence_provided(v)
      [] name = "CCV.EL.validate_evidence_outcome" -> CCV_EL_validate_evidence_outcome(v)
      [] name = "CCV.validate_strength" -> CCV_validate_strength(v)
      [] name = "CCV.validate_classification" -> CCV_validate_classification(v)
      [] name = "ACMG.validate_classification" -> ACMG_validate_classification(v)

\* The validator is applied again, to the value it returned
Revalidate ==
    /\ pc = "done"
    /\ input.tag = "mc"
    /\ result.ok
    /\ pc' = "used"
    /\ out' = Some([name |-> op, field |-> "", res |-> ValidatorOf(op, result.value)])
    /\ UNCHANGED <<input, op, result, obj, threads, registry>>

Next ==
    \/ AACValidateStrength
    \/ AACValidateClassification
    \/ CCVEvidenceLineValidateStrength
    \/ CCVEvidenceLineValidateOutcome
    \/ CCVValidateStrength
    \/ CCVValidateClassification
    \/ ACMGValidateClassification
    \/ ConstructRecord
    \/ ConstructSubjectVariantProposition
    \/ BuildPS3
    \/ ReadAttribute
    \/ AssignAttribute
    \/ Serialize
    \/ RoundTrip
    \/ ConstructAgain
    \/ Revalidate

Spec == Init /\ [][Next]_vars

(***************************************************************************)
(* Concurrent construction: each thread constructs one record from its own *)
(* document.  The threads share the module-level lists of permitted codes  *)
(* and nothing else; a thread's validator reads its list when it runs, and *)
(* the threads' reads interleave in any order.                             *)
(***************************************************************************)
\* The number of threads
NThreads == 2

Threads == 1..NThreads

\* The coded fields in the order the classes declare them, the order in
\* which a constructor validates them
CodedFieldOrder ==
    <<"strength", "classification", "strengthOfEvidenceProvided", "evidenceOutcome">>

\* The list the validator of kind K for field f reads (not in <LIST>)
ListRead(K, f) ==
    CASE K \in AACStatementKinds /\ f = "strength" -> "AMP_ASCO_CAP_LEVELS"
      [] K \in AACStatementKinds /\ f = "classification" -> "AMP_ASCO_CAP_TIERS"
      [] K = "VariantOncogenicityFunctionalImpactEvidenceLine"
           /\ f = "strengthOfEvidenceProvided" -> "STRENGTH_OF_EVIDENCE_PROVIDED_VALUES"
      [] K = "VariantOncogenicityFunctionalImpactEvidenceLine" /\ f = "evidenceOutcome" ->
            "CCV_EVIDENCE_OUTCOME_VALUES"
      [] K = "VariantOncogenicityStudyStatement" /\ f = "strength" -> "STRENGTHS"
      [] K = "VariantOncogenicityStudyStatement" /\ f = "classification" ->
            "CLIN_GEN_CLASSIFICATIONS"
      [] K = "VariantPathogenicityFunctionalImpactEvidenceLine"
           /\ f = "strengthOfEvidenceProvided" -> "STRENGTH_OF_EVIDENCE_PROVIDED_VALUES"
      [] K = "VariantPathogenicityFunctionalImpactEvidenceLine" /\ f = "evidenceOutcome" ->
            "ACMG_EVIDENCE_OUTCOME_VALUES"
      [] K = "VariantPathogenicityStatement" /\ f = "strength" -> "STRENGTHS"
      [] K = "VariantPathogenicityStatement" /\ f = "classification" ->
            "ACMG_CLASSIFICATIONS"
      [] OTHER -> ""

\* The supplied fields of a document whose validator reads a list
ListReadingFields(K, d) ==
    {f \in Range(CodedFieldOrder) : f \in Declared(K) /\ d[f] # None /\ ListRead(K, f) # ""}

\* A thread about to construct a record of kind inp.kind from inp.doc
NewThread(inp) ==
    [kind |-> inp.kind, doc |-> inp.doc, pc |-> "validating",
     todo |-> ListReadingFields(inp.kind, inp.doc), seen |-> {}, result |-> None]

\* The documents the threads construct from: profile statements and evidence
\* lines with a permitted and with another code, and an Agent
ThreadDocs ==
    {DocInput(K, With(With(BaseDoc(K), "strength", ValidCoded(K, "strength")),
                      "classification",
                      IF permitted THEN ValidCoded(K, "classification")
                      ELSE MC(System_ACMG, OtherCode))) :
        K \in {"VariantDiagnosticStudyStatement", "VariantPathogenicityStatement"},
        permitted \in BOOLEAN}
    \cup {DocInput("VariantOncogenicityFunctionalImpactEvidenceLine",
                With(With(BaseDoc("VariantOncogenicityFunctionalImpactEvidenceLine"),
                          "strengthOfEvidenceProvided", MC(System_CCV, "strong")),
                     "evidenceOutcome", MC(System_CCV, c))) :
            c \in {"OS2_supporting", OtherCode}}
    \cup {DocInput("VariantOncogenicityStudyStatement",
                   BaseDoc("VariantOncogenicityStudyStatement")),
          DocInput("Agent", With(EmptyDoc, "name", "Joe"))}

InitThreads ==
    /\ threads \in [Threads -> {NewThread(d) : d \in ThreadDocs}]
    /\ registry = Registry
    /\ input = McInput(None)
    /\ pc = "threads"
    /\ op = ""
    /\ result = None
    /\ obj = None
    /\ out = None

\* What a constructor returns when a list it read was not the list the
\* module defines: the validators above say nothing about that case
Undetermined == [ok |-> FALSE, errs |-> {<<"", "a permitted-code list changed">>}, rec |-> None]

\* Mutant: reading a list removes its first code.
ThreadReadList_consumes(t) ==
    /\ threads[t].pc = "validating"
    /\ threads[t].todo # {}
    /\ LET i == CHOOSE i \in DOMAIN CodedFieldOrder :
                    /\ CodedFieldOrder[i] \in threads[t].todo
                    /\ \A j \in 1..(i - 1) : CodedFieldOrder[j] \notin threads[t].todo
           f == CodedFieldOrder[i]
           n == ListRead(threads[t].kind, f)
       IN  /\ threads' = [threads EXCEPT ![t].todo = @ \ {f},
                                         ![t].seen = @ \cup {<<n, registry[n]>>}]
           /\ registry' = [registry EXCEPT ![n] = Tail(@)]
    /\ UNCHANGED <<input, pc, op, result, obj, out>>

\* The validator of thread t's next coded field reads its list; a read
\* leaves the list as it is
ThreadReadList(t) ==
    /\ threads[t].pc = "validating"
    /\ threads[t].todo # {}
    /\ LET i == CHOOSE i \in DOMAIN CodedFieldOrder :
                    /\ CodedFieldOrder[i] \in threads[t].todo
                    /\ \A j \in 1..(i - 1) : CodedFieldOrder[j] \notin threads[t].todo
           f == CodedFieldOrder[i]
           n == ListRead(threads[t].kind, f)
       IN  threads' = [threads EXCEPT ![t].todo = @ \ {f},
                                      ![t].seen = @ \cup {<<n, registry[n]>>}]
    /\ UNCHANGED <<registry, input, pc, op, result, obj, out>>

\* Thread t's constructor returns: what it returns is decided by its
\* document and by the lists its validators read
ThreadReturn(t) ==
    /\ threads[t].pc = "validating"
    /\ threads[t].todo = {}
    /\ threads' = [threads EXCEPT
                      ![t].pc = "done",
                      ![t].result =
                          Some(IF \A sn \in threads[t].seen : sn[2] = Registry[sn[1]]
                               THEN Construct(threads[t].kind, threads[t].doc)
                               ELSE Undetermined)]
    /\ UNCHANGED <<registry, input, pc, op, result, obj, out>>

NextThreads ==
    \E t \in Threads :
        \/ ThreadReadList(t)
        \/ ThreadReturn(t)

SpecThreads == InitThreads /\ [][NextThreads]_vars

(***************************************************************************)
(* The claims.                                                             *)
(***************************************************************************)
Done(name) == pc = "done" /\ op = name

Constructed(K) == pc = "done" /\ op = "construct" /\ input.kind = K

HasCoding(v, sys, c) == v.primaryCoding = Some([system |-> sys, code |-> c])

\* A coded concept that has a primaryCoding of system sys and a code in codes
Coded(v, sys, codes) ==
    /\ v.primaryCoding # None
    /\ v.primaryCoding[1].system = sys
    /\ v.primaryCoding[1].code \in codes

\* C1: for each of the three AMP/ASCO/CAP statements, the classification
\* validator accepts Tier I under the AAC system, rejects Tier I under the
\* ACMG system with the system message, rejects Tier V under the AAC system
\* with the code message, and under the AAC system accepts exactly
\* Tier I, Tier II, Tier III, Tier IV.
C1_AACClassification ==
    \A cls \in AACStatementKinds :
        Done(cls \o ".validate_classification") =>
            LET v == input.v[1]
            IN  /\ HasCoding(v, "AMP/ASCO/CAP (AAC) Guidelines, 2017", "Tier I")
                     => result.ok
                /\ HasCoding(v, "ACMG Guidelines, 2015", "Tier I")
                     => ~result.ok /\ result.err = AAC_ErrSystem
                /\ HasCoding(v, "AMP/ASCO/CAP (AAC) Guidelines, 2017", "Tier V")
                     => ~result.ok /\ result.err = AAC_ErrTier
                /\ (v.primaryCoding # None
                    /\ v.primaryCoding[1].system = "AMP/ASCO/CAP (AAC) Guidelines, 2017")
                     => (result.ok <=> v.primaryCoding[1].code
                                         \in {"Tier I", "Tier II", "Tier III", "Tier IV"})

C1_Witness ==
    /\ Done("VariantPrognosticStudyStatement.validate_classification")
    /\ HasCoding(input.v[1], "AMP/ASCO/CAP (AAC) Guidelines, 2017", "Tier V")
    /\ ~result.ok

\* C2 (as claimed): a profile evidence line document with direction neutral
\* and a strengthOfEvidenceProvided is rejected, whatever the strength.
C2_NeutralWithStrengthRejected ==
    \A K \in ProfileEvidenceLineKinds :
        (/\ Constructed(K)
         /\ input.doc["directionOfEvidenceProvided"] = Some("neutral")
         /\ input.doc["strengthOfEvidenceProvided"] # None)
            => ~result.ok

\* C3 (as claimed): a profile evidence line document with direction
\* supports or disputes and no strengthOfEvidenceProvided is rejected; with
\* supports and a strength valid for the profile it is accepted.
C3_DirectedNeedsStrength ==
    \A K \in ProfileEvidenceLineKinds :
        Constructed(K) =>
            /\ (/\ input.doc["directionOfEvidenceProvided"]
                      \in {Some("supports"), Some("disputes")}
                /\ input.doc["strengthOfEvidenceProvided"] = None)
                  => ~result.ok
            /\ (/\ input.doc["directionOfEvidenceProvided"] = Some("supports")
                /\ input.doc["strengthOfEvidenceProvided"]
                      = Some(ValidCoded(K, "strengthOfEvidenceProvided"))
                /\ input.doc["evidenceOutcome"] = None)
                  => result.ok

\* A supplied coded field whose primaryCoding has another system than sys
WrongSystem(d, f, sys) ==
    /\ d[f] # None
    /\ d[f][1].primaryCoding # None
    /\ d[f][1].primaryCoding[1].system # sys

\* C4 (as claimed): a VariantOncogenicityStudyStatement document whose
\* strength or classification has a primaryCoding.system other than the
\* expected literal is rejected, whatever its code.
C4_OncogenicitySystemRejected ==
    (/\ Constructed("VariantOncogenicityStudyStatement")
     /\ \/ WrongSystem(input.doc, "strength",
              "ClinGen Low Penetrance and Risk Allele Recommendations, 2024")
        \/ WrongSystem(input.doc, "classification",
              "ClinGen Low Penetrance and Risk Allele Recommendations, 2024"))
        => ~result.ok

\* C5 (as claimed): a VariantPathogenicityStatement document whose
\* classification has a primaryCoding.system outside the validator's
\* supported systems is rejected, whatever its code.
C5_PathogenicitySystemRejected ==
    (/\ Constructed("VariantPathogenicityStatement")
     /\ input.doc["classification"] # None
     /\ input.doc["classification"][1].primaryCoding # None
     /\ ~InList(input.doc["classification"][1].primaryCoding[1].system,
                ACMG_supported_systems))
        => ~result.ok

\* C6: for each of the three AMP/ASCO/CAP statements, the strength
\* validator returns an absent strength as it is, accepts a present one
\* exactly when it has a primaryCoding of the AAC system with a code among
\* Level A, Level B, Level C, Level D, and returns what it accepts unchanged.
C6_AACStrength ==
    \A cls \in AACStatementKinds :
        Done(cls \o ".validate_strength") =>
            /\ input.v = None => result.ok /\ result.value = None
            /\ input.v # None =>
                 (result.ok <=> Coded(input.v[1], "AMP/ASCO/CAP (AAC) Guidelines, 2017",
                                      {"Level A", "Level B", "Level C", "Level D"}))
            /\ result.ok => result.value = input.v

C6_Witness ==
    /\ Done("VariantDiagnosticStudyStatement.validate_strength")
    /\ input.v # None
    /\ HasCoding(input.v[1], "AMP/ASCO/CAP (AAC) Guidelines, 2017", "Level B")
    /\ input.v[1].name # None
    /\ result.ok /\ result.value = input.v

CCV_EL == "VariantOncogenicityFunctionalImpactEvidenceLine"

CCV_SYSTEM == "ClinGen/CGC/VICC Guidelines for Oncogenicity, 2022"

CCV_STRENGTH_CODES == {"standalone", "very strong", "strong", "moderate", "supporting"}

CCV_OUTCOME_CODES ==
    {"OS2", "OS2_moderate", "OS2_supporting", "OS2_not_met",
     "SBS2", "SBS2_moderate", "SBS2_supporting", "SBS2_not_met"}

\* C7: on VariantOncogenicityFunctionalImpactEvidenceLine a present
\* strengthOfEvidenceProvided or evidenceOutcome is accepted exactly when it
\* has a primaryCoding of the CCV system with a code of the field's set:
\* by the field's validator, and by the constructor (which rejects a
\* document with a present field that is not so, and accepts one whose
\* present coded fields are so when the rest of it is valid: direction
\* supports, specifiedBy a reference, type EvidenceLine or omitted); an
\* accepted evidenceOutcome is stored equal to the one supplied.
C7_CCVEvidenceLineFields ==
    /\ (Done("CCV.EL.validate_strength_of_evidence_provided") /\ input.v # None)
          => (result.ok <=> Coded(input.v[1], CCV_SYSTEM, CCV_STRENGTH_CODES))
    /\ (Done("CCV.EL.validate_evidence_outcome") /\ input.v # None)
          => /\ result.ok <=> Coded(input.v[1], CCV_SYSTEM, CCV_OUTCOME_CODES)
             /\ result.ok => result.value = input.v
    /\ Constructed(CCV_EL) =>
          LET s == input.doc["strengthOfEvidenceProvided"]
              o == input.doc["evidenceOutcome"]
              sOk == s = None \/ Coded(s[1], CCV_SYSTEM, CCV_STRENGTH_CODES)
              oOk == o = None \/ Coded(o[1], CCV_SYSTEM, CCV_OUTCOME_CODES)
          IN  /\ result.ok => sOk /\ oOk
              /\ (sOk /\ oOk /\ input.doc["type"] \in {None, Some("EvidenceLine")}
                   /\ [input.doc EXCEPT !["strengthOfEvidenceProvided"] = None,
                                        !["evidenceOutcome"] = None,
                                        !["type"] = None, !["name"] = None]
                        = BaseDoc(CCV_EL))
                    => result.ok
              /\ result.ok => result.rec[1].fields["evidenceOutcome"] = o

C7_Witness ==
    /\ Constructed(CCV_EL)
    /\ input.doc["directionOfEvidenceProvided"] = Some("supports")
    /\ input.doc["strengthOfEvidenceProvided"] = None
    /\ input.doc["evidenceOutcome"] = Some(MC(CCV_SYSTEM, "OS2_supporting"))
    /\ result.ok
    /\ result.rec[1].fields["evidenceOutcome"] = Some(MC(CCV_SYSTEM, "OS2_supporting"))

\* The discriminator literal registered for each concrete kind
Discriminator(K) ==
    CASE K \in {"Method", "Contribution", "Document", "Agent", "DataSet",
                "EvidenceLine", "Statement", "StudyGroup"} -> K
      [] K \in {"ExperimentalVariantFunctionalImpactProposition",
                "VariantPathogenicityProposition", "VariantDiagnosticProposition",
                "VariantPrognosticProposition", "VariantOncogenicityProposition",
                "VariantTherapeuticResponseProposition"} -> K
      [] K \in {"CohortAlleleFrequencyStudyResult",
                "ExperimentalVariantFunctionalImpactStudyResult"} -> K
      [] K \in {"VariantDiagnosticStudyStatement", "VariantPrognosticStudyStatement",
                "VariantTherapeuticResponseStudyStatement",
                "VariantPathogenicityStatement",
                "VariantOncogenicityStudyStatement"} -> "Statement"
      [] K \in {"VariantPathogenicityFunctionalImpactEvidenceLine",
                "VariantOncogenicityFunctionalImpactEvidenceLine"} -> "EvidenceLine"

\* C8: every record constructed of a concrete kind has the kind's
\* discriminator literal as its type, whether the document supplied type
\* or not.
C8_TypeIsDiscriminator ==
    \A K \in ConcreteKinds :
        (Constructed(K) /\ result.ok)
            => result.rec[1].fields["type"] = Some(Discriminator(K))

C8_Witness ==
    /\ Constructed("StudyGroup")
    /\ input.doc["type"] = None
    /\ result.ok
    /\ result.rec[1].fields["type"] = Some("StudyGroup")

\* C9: a document of a concrete kind that supplies a type other than the
\* kind's discriminator literal is rejected and no record is produced.
C9_WrongTypeRejected ==
    \A K \in ConcreteKinds :
        (/\ Constructed(K)
         /\ input.doc["type"] # None
         /\ input.doc["type"] # Some(Discriminator(K)))
            => ~result.ok /\ result.rec = None

C9_Witness ==
    /\ Constructed("VariantOncogenicityStudyStatement")
    /\ input.doc["type"] = Some("VariantOncogenicityProposition")
    /\ ~result.ok
    /\ <<"type", "literal_error">> \in result.errs

\* C10 (as claimed): each element of hasEvidenceItems resolves by its
\* shape alone: a bare string to a Reference wrapping it, a document of
\* type Statement to a Statement, a document of type EvidenceLine to an
\* EvidenceLine.
C10_ItemsResolveByShape ==
    (/\ Constructed("EvidenceLine")
     /\ input.doc["hasEvidenceItems"] # None
     /\ result.ok)
        => LET items == input.doc["hasEvidenceItems"][1]
               got   == result.rec[1].fields["hasEvidenceItems"][1]
           IN  \A i \in DOMAIN items :
                 /\ items[i].iri # None
                      => got[i].kind = "iriReference" /\ got[i].root = items[i].iri
                 /\ (items[i].doc # None /\ items[i].doc[1]["type"] = Some("Statement"))
                      => got[i].kind = "Statement"
                 /\ (items[i].doc # None /\ items[i].doc[1]["type"] = Some("EvidenceLine"))
                      => got[i].kind = "EvidenceLine"

\* Every element of the list but the i-th is a bare string
OthersAreReferences(items, i) ==
    \A j \in DOMAIN items : j # i => items[j].iri # None

\* C11 (as claimed): a hasEvidenceItems element that is a document of type
\* Statement and satisfies VariantTherapeuticResponseStudyStatement
\* resolves to the most-derived kind, VariantTherapeuticResponseStudyStatement.
C11_MostDerivedStatement ==
    (/\ Constructed("EvidenceLine")
     /\ input.doc["hasEvidenceItems"] # None)
        => LET items == input.doc["hasEvidenceItems"][1]
           IN  \A i \in DOMAIN items :
                 (/\ OthersAreReferences(items, i)
                  /\ items[i].doc # None
                  /\ items[i].doc[1]["type"] = Some("Statement")
                  /\ Construct("VariantTherapeuticResponseStudyStatement",
                               items[i].doc[1]).ok)
                    => /\ result.ok
                       /\ result.rec[1].fields["hasEvidenceItems"][1][i].kind
                            = "VariantTherapeuticResponseStudyStatement"

\* The i-th element is the serialization of a valid
\* CohortAlleleFrequencyStudyResult
IsCafSerialization(item) ==
    /\ item.doc # None
    /\ LET r == Construct("CohortAlleleFrequencyStudyResult", item.doc[1])
       IN  r.ok /\ model_dump(r.rec[1]) = item.doc[1]

\* C12 (as claimed): when a hasEvidenceItems element is the serialization of
\* a valid CohortAlleleFrequencyStudyResult, the EvidenceLine is constructed
\* and the element is a StudyResult that carries a
\* CohortAlleleFrequencyStudyResult.
C12_CafItemResolves ==
    (/\ Constructed("EvidenceLine")
     /\ input.doc["hasEvidenceItems"] # None)
        => LET items == input.doc["hasEvidenceItems"][1]
           IN  \A i \in DOMAIN items :
                 (OthersAreReferences(items, i) /\ IsCafSerialization(items[i]))
                    => /\ result.ok
                       /\ LET got == result.rec[1].fields["hasEvidenceItems"][1][i]
                          IN  /\ got.kind = "StudyResult"
                              /\ got.root # None
                              /\ got.root[1].kind = "CohortAlleleFrequencyStudyResult"

\* The documents of the claim: the caf fixture, and focusVariant alone
NarrowedDoc(K) ==
    IF K = "CohortAlleleFrequencyStudyResult"
    THEN [focusAllele |-> "allele.json#/1", focusAlleleCount |-> 0,
          focusAlleleFrequency |-> 0, locusAlleleCount |-> 34086, cohort |-> "Overall"]
    ELSE [focusVariant |-> "allele.json#/1"]

\* The document supplies exactly the fields of NarrowedDoc(K), with its values
IsNarrowedDoc(K, d) ==
    LET n == NarrowedDoc(K)
    IN  /\ \A f \in AllFields : d[f] # None <=> f \in DOMAIN n
        /\ \A f \in DOMAIN n :
              CASE f \in {"focusAllele", "focusVariant"} -> d[f][1].iri = Some(n[f])
                [] f = "cohort" -> d[f][1]["name"] = Some(n[f])
                [] OTHER -> d[f][1] = n[f]

\* C13 (as claimed): each profile study result is constructed from its
\* narrowed fields with no focus supplied; the narrowed field is a Reference
\* wrapping the string; focus is absent from the record and from its
\* serialization, reading it is an error and assigning it is rejected.
C13_FocusNarrowedOut ==
    \A K \in StudyResultKinds :
        /\ (Constructed(K) /\ IsNarrowedDoc(K, input.doc))
              => /\ result.ok
                 /\ \A f \in {"focusAllele", "focusVariant"} \cap DOMAIN NarrowedDoc(K) :
                       LET v == result.rec[1].fields[f][1]
                       IN  v.kind = "iriReference" /\ v.root = Some(NarrowedDoc(K)[f])
                 /\ result.rec[1].fields["focus"] = None
        /\ (pc = "used" /\ input.kind = K /\ result.ok)
              => /\ out[1].name = "model_dump" => out[1].res.value["focus"] = None
                 /\ (out[1].name = "getattr" /\ out[1].field = "focus")
                       => ~out[1].res.ok
                 /\ (out[1].name = "setattr" /\ out[1].field = "focus")
                       => ~out[1].res.ok /\ obj = result.rec

\* C14: a document that supplies a field its kind does not declare is
\* rejected and no record is returned; assigning a name the kind does not
\* declare on a constructed record is rejected and leaves the record, and so
\* every declared field of it, as it was constructed.
C14_OnlyDeclaredFields ==
    /\ (/\ pc = "done" /\ op = "construct"
        /\ \E f \in AllFields \ Declared(input.kind) : input.doc[f] # None)
          => ~result.ok /\ result.rec = None /\ obj = None
    /\ (/\ pc = "used" /\ out[1].name = "setattr"
        /\ out[1].field \notin Declared(input.kind))
          => /\ ~out[1].res.ok
             /\ obj = result.rec
             /\ \A f \in Declared(input.kind) :
                   obj[1].fields[f] = result.rec[1].fields[f]

C14_Witness ==
    /\ pc = "used"
    /\ input.kind = "Agent"
    /\ input.doc["name"] = Some("Joe")
    /\ out[1].name = "setattr"
    /\ out[1].field = "label"
    /\ ~out[1].res.ok
    /\ obj[1].fields["name"] = Some("Joe")
    /\ obj[1].fields["label"] = None

\* C15 (as claimed): for every concrete kind and every valid input, the
\* serialization of the constructed record constructs again, to a record
\* equal to the first, and the serialization equals the input (a valid
\* input has no field outside the schema).
C15_RoundTrip ==
    (/\ pc = "used"
     /\ input.kind \in ConcreteKinds
     /\ out[1].name = "round_trip")
        => /\ out[1].res.ok
           /\ out[1].res.rec = result.rec
           /\ model_dump(result.rec[1]) = input.doc

\* A list field of the document has an element that is a document and
\* satisfies bad
HasBadElement(d, f, bad(_)) ==
    /\ d[f] # None
    /\ \E i \in DOMAIN d[f][1] : d[f][1][i].doc # None /\ bad(d[f][1][i].doc[1])

IsEmptyDocument(e) == \A f \in AllFields : e[f] = None

LacksDirection(e) == e["directionOfEvidenceProvided"] = None

\* The document of kind K has a field its validator rejects, or a nested
\* element that cannot be constructed: an evidence item with no field at
\* all, an evidence line without a direction, a generic proposition
\* without a subject, a sub-cohort without a focusAllele.
HasFailingPart(K, d) ==
    \/ /\ K = CCV_EL
       /\ d["strengthOfEvidenceProvided"] # None
       /\ ~Coded(d["strengthOfEvidenceProvided"][1], CCV_SYSTEM, CCV_STRENGTH_CODES)
    \/ /\ K = CCV_EL
       /\ d["evidenceOutcome"] # None
       /\ ~Coded(d["evidenceOutcome"][1], CCV_SYSTEM, CCV_OUTCOME_CODES)
    \/ HasBadElement(d, "hasEvidenceItems", IsEmptyDocument)
    \/ HasBadElement(d, "hasEvidenceLines", LacksDirection)
    \/ /\ K = "Statement"
       /\ d["proposition"] # None
       /\ d["proposition"][1]["subject"] = None
    \/ /\ K = "EvidenceLine"
       /\ d["targetProposition"] # None
       /\ d["targetProposition"][1]["subject"] = None
    \/ /\ d["subCohortFrequency"] # None
       /\ \E i \in DOMAIN d["subCohortFrequency"][1] :
             d["subCohortFrequency"][1][i]["focusAllele"] = None

\* C16: no step changes the input; a construction whose document has a
\* failing field validator or a failing nested element fails as a whole;
\* and a failed construction returns no record and leaves no object.
C16_NoPartialSuccess ==
    [][/\ input' = input
       /\ (op' = "construct" /\ HasFailingPart(input.kind, input.doc))
             => ~result'.ok
       /\ (op' = "construct" /\ ~result'.ok)
             => result'.rec = None /\ obj' = None]_vars

C16_Witness ==
    /\ Constructed("Statement")
    /\ input.doc["proposition"] = Some(BaseProposition)
    /\ HasBadElement(input.doc, "hasEvidenceLines", LacksDirection)
    /\ \E i \in DOMAIN input.doc["hasEvidenceLines"][1] :
          input.doc["hasEvidenceLines"][1][i] = DocItem(BaseDoc("EvidenceLine"))
    /\ ~result.ok
    /\ result.rec = None
    /\ obj = None

ProfileBoundFields ==
    {"strength", "classification", "strengthOfEvidenceProvided", "evidenceOutcome"}

\* C18: a validator applied to a value it accepted accepts it again and
\* returns the same value; and on a constructed record of a kind that
\* declares its validators in its own body, the validator of each
\* profile-bound field returns the field's value as it is.
C18_ValidatorsIdempotent ==
    /\ (pc = "used" /\ input.tag = "mc")
          => out[1].res.ok /\ out[1].res.value = result.value
    /\ (pc = "done" /\ op = "construct" /\ result.ok
            /\ input.kind \notin AACStatementKinds)
          => \A f \in ProfileBoundFields :
                result.rec[1].fields[f] # None
                  => FieldValidator(input.kind, f, result.rec[1].fields[f][1])
                       = Return(result.rec[1].fields[f][1])

C18_Witness ==
    /\ pc = "used"
    /\ op = "CCV.validate_strength"
    /\ input.v = Some(MC("ClinGen Low Penetrance and Risk Allele Recommendations, 2024",
                         "definitive"))
    /\ result.value = input.v
    /\ out[1].res.ok
    /\ out[1].res.value = input.v

\* The predicate values of the claim
OwnPredicates(K) ==
    CASE K = "VariantDiagnosticProposition" ->
            {"isDiagnosticInclusionCriterionFor", "isDiagnosticExclusionCriterionFor"}
      [] K = "VariantPrognosticProposition" ->
            {"associatedWithBetterOutcomeFor", "associatedWithWorseOutcomeFor"}
      [] K = "VariantTherapeuticResponseProposition" ->
            {"predictsSensitivityTo", "predictsResistanceTo"}

\* C20: a diagnostic, prognostic or therapeutic-response proposition is
\* constructed only with one of its own predicate values; with the other
\* required fields supplied it is constructed exactly when the predicate is
\* supplied and is one of them.
C20_OwnPredicatesOnly ==
    \A K \in {"VariantDiagnosticProposition", "VariantPrognosticProposition",
               "VariantTherapeuticResponseProposition"} :
        Constructed(K) =>
            /\ result.ok => /\ input.doc["predicate"] # None
                            /\ input.doc["predicate"][1] \in OwnPredicates(K)
                            /\ result.rec[1].fields["predicate"] = input.doc["predicate"]
            /\ (\A f \in AllFields \ {"predicate"} :
                    input.doc[f] = BasePropositionOf(K)[f])
                  => (result.ok <=> /\ input.doc["predicate"] # None
                                    /\ input.doc["predicate"][1] \in OwnPredicates(K))

C20_Witness ==
    /\ Constructed("VariantTherapeuticResponseProposition")
    /\ input.doc["predicate"] = Some("isCausalFor")
    /\ input.doc["objectTherapeutic"] # None
    /\ input.doc["conditionQualifier"] # None
    /\ ~result.ok
    /\ <<"predicate", "enum">> \in result.errs

(***************************************************************************)
(* C21: the fixed predicates                                               *)
(***************************************************************************)
\* The predicate the claim fixes for a proposition kind
FixedPredicate(K) ==
    CASE K \in {"VariantPathogenicityProposition", "VariantOncogenicityProposition"} ->
            "isCausalFor"
      [] K = "ExperimentalVariantFunctionalImpactProposition" -> "impactsFunctionOf"

\* C21: a constructed pathogenicity or oncogenicity proposition has the
\* predicate isCausalFor and a constructed experimental functional-impact
\* proposition has impactsFunctionOf; a document that supplies any other
\* predicate for one of these kinds is rejected.
C21_FixedPredicate ==
    \A K \in {"VariantPathogenicityProposition", "VariantOncogenicityProposition",
               "ExperimentalVariantFunctionalImpactProposition"} :
        Constructed(K) =>
            /\ result.ok => result.rec[1].fields["predicate"] = Some(FixedPredicate(K))
            /\ (input.doc["predicate"] # None
                  /\ input.doc["predicate"] # Some(FixedPredicate(K))) => ~result.ok

(***************************************************************************)
(* C22: a profile statement carries only its own proposition kind          *)
(***************************************************************************)
\* The object field of a proposition kind
ObjectField(P) ==
    CASE P = "ExperimentalVariantFunctionalImpactProposition" -> "objectSequenceFeature"
      [] P = "VariantOncogenicityProposition" -> "objectTumorType"
      [] P = "VariantTherapeuticResponseProposition" -> "objectTherapeutic"
      [] OTHER -> "objectCondition"

\* The predicates of a proposition kind: the fixed one, or its enumeration's
PredicatesOf(P) ==
    IF P \in {"VariantDiagnosticProposition", "VariantPrognosticProposition",
              "VariantTherapeuticResponseProposition"}
    THEN OwnPredicates(P)
    ELSE {FixedPredicate(P)}

\* d is a document of proposition kind P: its type says so, or it has no
\* type and carries the object field and a predicate of P (a fixed predicate
\* may be left out)
IsDocumentOf(P, d) ==
    \/ d["type"] = Some(P)
    \/ /\ d["type"] = None
       /\ d[ObjectField(P)] # None
       /\ \/ d["predicate"] # None /\ d["predicate"][1] \in PredicatesOf(P)
          \/ d["predicate"] = None /\ PredicateDefault(P) # None

\* C22: a profile statement constructed with a proposition document of
\* another proposition kind than its own is rejected.
C22_OwnPropositionOnly ==
    \A S \in ProfileStatementKinds :
        (Constructed(S) /\ input.doc["proposition"] # None) =>
            LET d == input.doc["proposition"][1]
            IN  (/\ ~IsDocumentOf(PropositionKindOf(S), d)
                 /\ \E P \in PropositionKinds : IsDocumentOf(P, d)) => ~result.ok

(***************************************************************************)
(* C23: a proposition document without a type is resolved by its object    *)
(* field                                                                   *)
(***************************************************************************)
\* The kind the claim gives for the object field a document carries
KindByObjectField(d) ==
    CASE d["objectTherapeutic"] # None -> "VariantTherapeuticResponseProposition"
      [] d["objectTumorType"] # None -> "VariantOncogenicityProposition"
      [] d["objectSequenceFeature"] # None ->
            "ExperimentalVariantFunctionalImpactProposition"
      [] OTHER -> ""

\* C23: SubjectVariantProposition resolves a document without a type to a
\* kind that constructs from it; a document carrying objectTherapeutic
\* resolves to VariantTherapeuticResponseProposition, one carrying
\* objectTumorType to VariantOncogenicityProposition, one carrying
\* objectSequenceFeature to ExperimentalVariantFunctionalImpactProposition;
\* it is rejected exactly when no proposition kind constructs from it.
C23_ResolvedByObjectField ==
    (Done("SubjectVariantProposition") /\ input.doc["type"] = None) =>
        /\ result.ok <=> \E P \in PropositionKinds : Construct(P, input.doc).ok
        /\ result.ok =>
              LET root == result.value.root[1]
              IN  /\ Construct(root.kind, input.doc).rec = Some(root)
                  /\ KindByObjectField(input.doc) # "" =>
                        root.kind = KindByObjectField(input.doc)
        /\ (/\ KindByObjectField(input.doc) # ""
            /\ Construct(KindByObjectField(input.doc), input.doc).ok) => result.ok

C23_Witness ==
    /\ Done("SubjectVariantProposition")
    /\ input.doc["type"] = None
    /\ input.doc["objectTherapeutic"] # None
    /\ result.ok
    /\ result.value.root[1].kind = "VariantTherapeuticResponseProposition"
    /\ result.value.root[1].fields["type"] = Some("VariantTherapeuticResponseProposition")

(***************************************************************************)
(* C24: a constructed record keeps its fields                              *)
(***************************************************************************)
\* C24: after any operation on a constructed record (reading or assigning
\* an attribute, serialization, a round trip, another construction) every
\* field of the record, its type among them, has the value it had when the
\* constructor returned.
C24_RecordsImmutable ==
    (pc = "used" /\ op = "construct" /\ result.ok) =>
        /\ obj = result.rec
        /\ obj[1].fields["type"] = result.rec[1].fields["type"]

(***************************************************************************)
(* C25: concurrent construction (under SpecThreads)                        *)
(***************************************************************************)
\* C25: however the threads' constructions interleave, each returns what
\* the same construction returns alone, and the lists of permitted codes
\* are what the modules define, before and after.
C25_ConcurrentConstructionSafe ==
    /\ registry.AMP_ASCO_CAP_LEVELS = AMP_ASCO_CAP_LEVELS
    /\ registry.AMP_ASCO_CAP_TIERS = AMP_ASCO_CAP_TIERS
    /\ registry.ACMG_EVIDENCE_OUTCOME_VALUES = ACMG_EVIDENCE_OUTCOME_VALUES
    /\ registry.CCV_EVIDENCE_OUTCOME_VALUES = CCV_EVIDENCE_OUTCOME_VALUES
    /\ registry.ACMG_CLASSIFICATIONS = ACMG_CLASSIFICATIONS
    /\ registry.STRENGTHS = STRENGTHS
    /\ registry.STRENGTH_OF_EVIDENCE_PROVIDED_VALUES = STRENGTH_OF_EVIDENCE_PROVIDED_VALUES
    /\ \A t \in DOMAIN threads :
          threads[t].pc = "done" =>
              threads[t].result = Some(Construct(threads[t].kind, threads[t].doc))

C25_Witness ==
    /\ DOMAIN threads = Threads
    /\ \A t \in Threads : threads[t].pc = "done" /\ threads[t].seen # {}
    /\ \E t, u \in Threads :
          /\ threads[t].doc # threads[u].doc
          /\ threads[t].result[1].ok
          /\ ~threads[u].result[1].ok
          /\ \E sn \in threads[t].seen : sn \in threads[u].seen

(***************************************************************************)
(* C26: the ACMG classification codes                                      *)
(***************************************************************************)
\* The five classification codes the claim lists
ACMG_CLASSIFICATION_CODES ==
    {"pathogenic", "likely pathogenic", "benign", "likely benign",
     "uncertain significance"}

\* C26: the classification validator of VariantPathogenicityStatement
\* rejects a classification with no primaryCoding; one whose system is
\* "ACMG Guidelines, 2015" it accepts, unchanged, exactly when the code is
\* one of the five ACMG classifications; a constructed
\* VariantPathogenicityStatement whose classification has that system
\* carries one of the five codes.
C26_ACMGClassification ==
    /\ Done("ACMG.validate_classification") =>
          LET v == input.v[1]
          IN  /\ v.primaryCoding = None => ~result.ok /\ result.err = ErrCodingRequired
              /\ (v.primaryCoding # None
                    /\ v.primaryCoding[1].system = "ACMG Guidelines, 2015") =>
                    /\ result.ok <=> v.primaryCoding[1].code \in ACMG_CLASSIFICATION_CODES
                    /\ result.ok => result.value = v
    /\ (Constructed("VariantPathogenicityStatement") /\ result.ok
          /\ input.doc["classification"] # None) =>
          LET v == input.doc["classification"][1]
          IN  /\ v.primaryCoding # None
              /\ v.primaryCoding[1].system = "ACMG Guidelines, 2015" =>
                    v.primaryCoding[1].code \in ACMG_CLASSIFICATION_CODES

C26_Witness ==
    /\ Done("ACMG.validate_classification")
    /\ input.v[1].primaryCoding # None
    /\ input.v[1].primaryCoding[1].system = "ACMG Guidelines, 2015"
    /\ input.v[1].primaryCoding[1].code = "likely risk allele"
    /\ ~result.ok
    /\ result.err = ACMG_ErrClassification

(***************************************************************************)
(* C27: the order of a validator's checks                                  *)
(***************************************************************************)
\* The error of a validator call on coded concept v is decided by the first
\* failing check: no primaryCoding, then the system, then the code
FirstFailureDecides(v, system, codes, errSystem, errCode) ==
    /\ v.primaryCoding = None => ~result.ok /\ result.err = ErrCodingRequired
    /\ (v.primaryCoding # None /\ v.primaryCoding[1].system # system) =>
          ~result.ok /\ result.err = errSystem
    /\ (~result.ok /\ result.err = errCode) =>
          /\ v.primaryCoding # None
          /\ v.primaryCoding[1].system = system
          /\ v.primaryCoding[1].code \notin codes

\* C27: in the AAC strength and classification validators and in the CCV
\* evidence line validators a value without primaryCoding gets the missing
\* coding error, a value with the wrong system gets the system mismatch
\* error even when its code is also not permitted, and the invalid code
\* error is raised only when the system is the right one.
C27_FirstFailingCheckDecides ==
    /\ \A cls \in AACStatementKinds :
          /\ (Done(cls \o ".validate_strength") /\ input.v # None) =>
                FirstFailureDecides(input.v[1], "AMP/ASCO/CAP (AAC) Guidelines, 2017",
                    {"Level A", "Level B", "Level C", "Level D"},
                    AAC_ErrSystem, AAC_ErrLevel)
          /\ Done(cls \o ".validate_classification") =>
                FirstFailureDecides(input.v[1], "AMP/ASCO/CAP (AAC) Guidelines, 2017",
                    {"Tier I", "Tier II", "Tier III", "Tier IV"},
                    AAC_ErrSystem, AAC_ErrTier)
    /\ (Done("CCV.EL.validate_strength_of_evidence_provided") /\ input.v # None) =>
          FirstFailureDecides(input.v[1], CCV_SYSTEM, CCV_STRENGTH_CODES,
                              CCV_ErrSystem, CCV_ErrStrengthOfEvidence)
    /\ (Done("CCV.EL.validate_evidence_outcome") /\ input.v # None) =>
          FirstFailureDecides(input.v[1], CCV_SYSTEM, CCV_OUTCOME_CODES,
                              CCV_ErrSystem, CCV_ErrOutcome)

C27_Witness ==
    /\ Done("CCV.EL.validate_evidence_outcome")
    /\ input.v # None
    /\ input.v[1].primaryCoding = Some([system |-> "ACMG 2015", code |-> "Tier V"])
    /\ ~result.ok
    /\ result.err = CCV_ErrSystem

(***************************************************************************)
(* C28: specifiedBy on the ACMG evidence line                              *)
(***************************************************************************)
ACMG_EL == "VariantPathogenicityFunctionalImpactEvidenceLine"

\* Every field but specifiedBy and type is as in the base document of kind K
OnlySpecifiedByVaried(K) ==
    \A f \in AllFields \ {"specifiedBy", "type"} : input.doc[f] = BaseDoc(K)[f]

\* C28: a VariantPathogenicityFunctionalImpactEvidenceLine is not
\* constructed without specifiedBy, nor with a Method that has no
\* reportedIn; with the other fields valid it is constructed with a Method
\* that has reportedIn and with a reference, for which reportedIn is not
\* looked at; the record's specifiedBy is the value as it was resolved.
C28_SpecifiedBy ==
    Constructed(ACMG_EL) =>
        LET sb == input.doc["specifiedBy"]
        IN  /\ sb = None => ~result.ok /\ <<"specifiedBy", "missing">> \in result.errs
            /\ (sb # None /\ sb[1].doc # None /\ sb[1].doc[1]["reportedIn"] = None) =>
                  ~result.ok
            /\ (sb # None /\ sb[1].doc # None /\ sb[1].doc[1]["reportedIn"] = None
                  /\ Construct("Method", sb[1].doc[1]).ok) =>
                  <<"specifiedBy", "reportedIn is required.">> \in result.errs
            /\ (sb # None /\ OnlySpecifiedByVaried(ACMG_EL)
                  /\ input.doc["type"] \in {None, Some("EvidenceLine")}) =>
                  /\ sb[1].iri # None =>
                        /\ result.ok
                        /\ result.rec[1].fields["specifiedBy"] =
                              Some(Built("iriReference", sb[1].iri, EmptyDoc))
                  /\ (sb[1].doc # None /\ sb[1].doc[1]["reportedIn"] # None
                        /\ Construct("Method", sb[1].doc[1]).ok) =>
                        /\ result.ok
                        /\ result.rec[1].fields["specifiedBy"] =
                              Construct("Method", sb[1].doc[1]).rec

C28_Witness ==
    /\ Constructed(ACMG_EL)
    /\ input.doc["specifiedBy"] # None
    /\ input.doc["specifiedBy"][1].doc # None
    /\ input.doc["specifiedBy"][1].doc[1]["type"] = Some("Method")
    /\ input.doc["specifiedBy"][1].doc[1]["reportedIn"] = None
    /\ ~result.ok
    /\ result.errs = {<<"specifiedBy", "reportedIn is required.">>}

(***************************************************************************)
(* C29, C30: the PS3 builder                                               *)
(***************************************************************************)
\* The code of an optional coded concept of a record
CodeOf(mc) == mc[1].primaryCoding[1].code

SystemOf(mc) == mc[1].primaryCoding[1].system

\* C29: for every criteria_met and strength PS3 returns an evidence line;
\* with criteria_met false its direction is neutral, it has no strength and
\* its outcome code is PS3_not_met; with criteria_met true its direction is
\* supports, its strength is coded with the strength passed and its outcome
\* code is PS3 for strong and PS3_<strength> otherwise; the strength is
\* present exactly when the direction is not neutral.
C29_PS3Mapping ==
    Done("PS3") =>
        /\ result.ok
        /\ LET el == result.value.fields
           IN  /\ ~input.criteria_met =>
                     /\ el["directionOfEvidenceProvided"] = Some("neutral")
                     /\ el["strengthOfEvidenceProvided"] = None
                     /\ CodeOf(el["evidenceOutcome"]) = "PS3_not_met"
               /\ input.criteria_met =>
                     /\ el["directionOfEvidenceProvided"] = Some("supports")
                     /\ el["strengthOfEvidenceProvided"] # None
                     /\ CodeOf(el["strengthOfEvidenceProvided"]) = input.strength
                     /\ CodeOf(el["evidenceOutcome"]) =
                           IF input.strength = "strong" THEN "PS3"
                           ELSE "PS3_" \o input.strength
               /\ el["strengthOfEvidenceProvided"] # None
                     <=> el["directionOfEvidenceProvided"] # Some("neutral")

\* C30: for every criteria_met and strength the evidence line PS3 returns
\* satisfies the ACMG 2015 profile rules: the system of its strength and of
\* its evidence outcome is "ACMG Guidelines, 2015", its strength code is a
\* permitted strength-of-evidence value and its outcome code is one of PS3,
\* PS3_moderate, PS3_supporting, PS3_not_met, BS3, BS3_moderate,
\* BS3_supporting, BS3_not_met.
C30_PS3MeetsProfile ==
    Done("PS3") =>
        /\ result.ok
        /\ LET el == result.value.fields
           IN  /\ el["strengthOfEvidenceProvided"] # None =>
                     /\ SystemOf(el["strengthOfEvidenceProvided"]) = "ACMG Guidelines, 2015"
                     /\ CodeOf(el["strengthOfEvidenceProvided"]) \in
                           {"standalone", "very strong", "strong", "moderate", "supporting"}
               /\ el["evidenceOutcome"] # None
               /\ SystemOf(el["evidenceOutcome"]) = "ACMG Guidelines, 2015"
               /\ CodeOf(el["evidenceOutcome"]) \in
                     {"PS3", "PS3_moderate", "PS3_supporting", "PS3_not_met",
                      "BS3", "BS3_moderate", "BS3_supporting", "BS3_not_met"}

=============================================================================
